---------------------------- MODULE Spec2Model ----------------------------
(***************************************************************************)
(* Vehicle Stock Control: the scan ingestion pipeline of the agent app.    *)
(*                                                                         *)
(* Text is modelled as a sequence of one-character strings, so that the    *)
(* stripping, trimming, matching and parsing the code performs on text     *)
(* are computed on the characters.                                         *)
(*                                                                         *)
(* Specifications:                                                         *)
(*   Spec         the agent's application: sessions, tabs, the four        *)
(*                capture flows and their handlers in flight               *)
(*   SpecSingle   extractVinFromImage over a family of recognition texts   *)
(*   SpecMulti    the parsing of handleAnalyze over a family of answers    *)
(*   SpecSampler  extractFrames over the durations a video may report      *)
(*   SpecAuth     authService: invitations generated, redeemed, revoked    *)
(*   SpecStart    two devices that start a session at the same instant     *)
(***************************************************************************)
EXTENDS Integers, Sequences, FiniteSets, Bags, TLC

VARIABLES
    \* AgentApp.tsx: the state of the agent's application
    activeTab,          \* 'scanner' | 'image' | 'manual' | 'video'
    screen,             \* 'welcome' | 'scanning' | 'summary'
    parkingArea,        \* the location of the session, '' when there is none
    currentSessionId,   \* the session identifier, '' when there is none
    sessionLogs,        \* the session ledger, newest record first
    locations,          \* the locations offered for session start
    \* firebaseService.ts
    mockFirestore,      \* the audit log, oldest record first
    \* the clock read by new Date(), in hundredths of a second
    now,
    \* the state of the mounted components
    welcome,            \* WelcomeScreen
    scanner,            \* ScanningScreen
    image,              \* ImageAnalyzer
    manual,             \* ManualVinInput
    video,              \* VideoAnalyzer
    \* the async handlers that have started and wait for a promise
    procs,
    \* the candidate parser and the frame sampler on their own
    recogText,      \* the text the recognition service answered with
    recogShape,     \* how that text was composed (known to the environment only)
    recogOutcome,   \* "pending" | "text" | "failed": how the remote call ended
    singleResult,   \* what extractVinFromImage returned or threw
    multiResult,    \* what handleAnalyze made of the text
    videoDuration,  \* video.duration of the element extractFrames loads
    samplerPc,      \* where extractFrames is
    finalDuration,  \* const finalDuration
    seekTimes,      \* the values assigned to video.currentTime, in order
    \* authService (localStorage)
    users,          \* mockUsers
    invites,        \* mockInvites
    registered,     \* the calls of register that resolved: code and new user
    authResult,     \* how the last call of authService ended
    \* two devices on the welcome screen
    startAreas,     \* the location selected on each device
    startInstant,   \* the instant at which Start is pressed on both
    startedIds      \* the session identifier of each device, once started

appVars ==
    <<activeTab, screen, parkingArea, currentSessionId, sessionLogs, locations,
      mockFirestore, now, welcome, scanner, image, manual, video, procs>>

parserVars == <<recogText, recogShape, recogOutcome, singleResult, multiResult>>

samplerVars == <<videoDuration, samplerPc, finalDuration, seekTimes>>

authVars == <<users, invites, registered, authResult>>

startVars == <<startAreas, startInstant, startedIds>>

vars == <<appVars, parserVars, samplerVars, authVars, startVars>>

----------------------------------------------------------------------------
(* Bounds of the model *)

\* how far the number of alphabet characters of a generated recognition
\* text may lie from VIN_LENGTH, on either side
MaxSlack == 2

\* the largest number of elements of a generated JSON array
MaxElems == 2

\* the longest video, in tenths of a second
MaxDurationTenths == 100

\* how many async handlers may be waiting at once
MaxInFlight == 2

\* how many sessions are started
MaxSessions == 2

\* how many records are saved
MaxRecords == 2

(* Program constants *)

\* the length every VIN must have (geminiService.ts: vin.length !== 17)
VIN_LENGTH == 17

----------------------------------------------------------------------------
(* Characters *)

Digits == {"0", "1", "2", "3", "4", "5", "6", "7", "8", "9"}

UpperLetters ==
    {"A", "B", "C", "D", "E", "F", "G", "H", "I", "J", "K", "L", "M",
     "N", "O", "P", "Q", "R", "S", "T", "U", "V", "W", "X", "Y", "Z"}

LowerSeq ==
    <<"a", "b", "c", "d", "e", "f", "g", "h", "i", "j", "k", "l", "m",
      "n", "o", "p", "q", "r", "s", "t", "u", "v", "w", "x", "y", "z">>

UpperSeq ==
    <<"A", "B", "C", "D", "E", "F", "G", "H", "I", "J", "K", "L", "M",
      "N", "O", "P", "Q", "R", "S", "T", "U", "V", "W", "X", "Y", "Z">>

LowerLetters == {LowerSeq[i] : i \in 1..26}

\* JavaScript's white space, as far as the texts of the model use it
WhiteSpace == {" ", "\n", "\t", "\r"}

\* String.prototype.toUpperCase on one character
ToUpperChar(c) ==
    IF c \in LowerLetters
    THEN UpperSeq[CHOOSE i \in 1..26 : LowerSeq[i] = c]
    ELSE c

\* String.prototype.toUpperCase
ToUpperCase(s) == [i \in 1..Len(s) |-> ToUpperChar(s[i])]

\* the class without its gaps: [A-Z0-9]
InUpperOrDigit(c) == c \in UpperLetters \/ c \in Digits

\* the character class [A-HJ-NPR-Z0-9] of the VIN-stripping regular
\* expressions: the ranges A-H, J-N, P-R... as written, R-Z included
InVinClass(c) ==
    \/ c \in Digits
    \/ c \in {"A", "B", "C", "D", "E", "F", "G", "H"}
    \/ c \in {"J", "K", "L", "M", "N"}
    \/ c = "P"
    \/ c \in {"R", "S", "T", "U", "V", "W", "X", "Y", "Z"}

\* s.replace(/[^A-HJ-NPR-Z0-9]/g, ''): left to right, every character
\* outside the class is dropped
ReplaceNonVin(s) == SelectSeq(s, InVinClass)

\* String.prototype.trim: white space removed from both ends
\* the least and the greatest of a non-empty set of integers
Least(S) == CHOOSE x \in S : \A y \in S : x <= y
Greatest(S) == CHOOSE x \in S : \A y \in S : y <= x

\* the text from its first character that is no white space
TrimStart(s) ==
    SubSeq(s, Least({i \in 1..Len(s) : s[i] \notin WhiteSpace} \cup {Len(s) + 1}),
           Len(s))

\* the text up to its last character that is no white space
TrimEnd(s) ==
    SubSeq(s, 1, Greatest({i \in 1..Len(s) : s[i] \notin WhiteSpace} \cup {0}))

Trim(s) == TrimEnd(TrimStart(s))

----------------------------------------------------------------------------
(* Identifiers used as inputs *)

VinA == <<"1", "G", "1", "F", "W", "1", "R", "7", "7", "J", "4", "1", "0", "0", "0", "0", "0">>
VinB == <<"2", "H", "G", "E", "S", "1", "6", "5", "7", "5", "H", "5", "9", "2", "4", "8", "3">>
VinC == <<"J", "H", "4", "K", "A", "7", "5", "6", "1", "P", "C", "0", "0", "8", "2", "6", "9">>

----------------------------------------------------------------------------
(* Recognition Gateway, single-identifier mode: geminiService.ts *)

NoResult == [ok |-> FALSE, vin |-> <<>>, message |-> "none"]

\* the Error thrown inside the try block when the stripped text has not
\* VIN_LENGTH characters; it carries the offending length
InvalidVinLength(n) == [kind |-> "InvalidVinLength", length |-> n]

\* the statement `response.text.trim().replace(/[^A-HJ-NPR-Z0-9]/g, '')`
StripVin(text) == ReplaceNonVin(Trim(text))

\* the try block of extractVinFromImage once the remote call has answered
\* with `text`: the stripped text, or the Error thrown for its length
ExtractTry(text) ==
    LET vin == StripVin(text) IN
    IF Len(vin) # VIN_LENGTH
    THEN [threw |-> TRUE, vin |-> <<>>, error |-> InvalidVinLength(Len(vin))]
    ELSE [threw |-> FALSE, vin |-> vin, error |-> InvalidVinLength(0)]

\* extractVinFromImage: `answered` tells whether generateContent resolved;
\* whatever is thrown inside the try block, by the remote call or by the
\* length check, is caught and replaced by one and the same Error
extractVinFromImage(answered, text) ==
    IF answered /\ ~ExtractTry(text).threw
    THEN [ok |-> TRUE, vin |-> ExtractTry(text).vin, message |-> "none"]
    ELSE [ok |-> FALSE, vin |-> <<>>, message |-> "Could not recognize a valid VIN"]

----------------------------------------------------------------------------
(* Candidate parsing, multi-identifier mode: VideoAnalyzer.tsx handleAnalyze *)

\* does `pat` occur in s at position i
StartsWithAt(s, i, pat) ==
    /\ i + Len(pat) - 1 <= Len(s)
    /\ \A k \in 1..Len(pat) : s[i + k - 1] = pat[k]

\* the grave accent, which a string of this module cannot hold
Backtick == "<backtick>"

Fence == <<Backtick, Backtick, Backtick>>
FenceJson == Fence \o <<"j", "s", "o", "n", "\n">>
FenceEnd == <<"\n">> \o Fence

\* rawResult.replace(/FENCEjson\n|\nFENCE|FENCE/g, '') where FENCE is three
\* grave accents: at each position the alternatives are tried in the order
\* written
FenceAt(s, i) ==
    CASE StartsWithAt(s, i, FenceJson) -> FenceJson
      [] StartsWithAt(s, i, FenceEnd) -> FenceEnd
      [] StartsWithAt(s, i, Fence) -> Fence
      [] OTHER -> <<>>

\* the text from position i with every match removed: the leftmost match
\* at or after i, what precedes it kept, the scan resumed behind it
RECURSIVE StripFencesFrom(_, _)
StripFencesFrom(s, i) ==
    LET starts == {j \in i..Len(s) : FenceAt(s, j) # <<>>}
        j == Least(starts)
    IN  IF starts = {} THEN SubSeq(s, i, Len(s))
        ELSE SubSeq(s, i, j - 1) \o StripFencesFrom(s, j + Len(FenceAt(s, j)))

\* const cleanedResult = rawResult.replace(..., '').trim()
CleanResult(rawResult) == Trim(StripFencesFrom(rawResult, 1))

(* JSON.parse, by recursive descent over the characters.  A parsed value  *)
(* keeps what the caller looks at: whether it is an array, whether it is  *)
(* a string, the string's characters and the array's elements.            *)

JsonString(chars) == [t |-> "string", s |-> chars, items |-> <<>>]
JsonArray(elems) == [t |-> "array", s |-> <<>>, items |-> elems]
JsonOther == [t |-> "other", s |-> <<>>, items |-> <<>>]

JsonFail == [ok |-> FALSE, v |-> JsonOther, next |-> 0]
JsonOk(value, nextPos) == [ok |-> TRUE, v |-> value, next |-> nextPos]

JsonWs == {" ", "\n", "\t", "\r"}

\* the first position at or after i that holds no white space
SkipWs(s, i) == Least({j \in i..Len(s) : s[j] \notin JsonWs} \cup {Len(s) + 1})

HexDigits == Digits \cup {"a", "b", "c", "d", "e", "f", "A", "B", "C", "D", "E", "F"}

\* the character a two-character escape stands for; the control characters
\* that the module's strings cannot write are named
Unescape(c) ==
    CASE c = "n" -> "\n"
      [] c = "t" -> "\t"
      [] c = "r" -> "\r"
      [] c = "b" -> "<BS>"
      [] c = "f" -> "<FF>"
      [] OTHER -> c

\* the characters of a string literal whose opening quote is before i
\* the characters a string literal does not take as they are
StringSpecial == {"\"", "\\", "\n", "\t", "\r"}

\* plain characters are taken up to the next special one: the closing
\* quote ends the literal, an escape is decoded and the scan goes on
RECURSIVE ScanString(_, _, _)
ScanString(s, i, acc) ==
    LET j == Least({k \in i..Len(s) : s[k] \in StringSpecial} \cup {Len(s) + 1})
        plain == acc \o SubSeq(s, i, j - 1)
    IN  CASE j > Len(s) -> JsonFail
          [] j <= Len(s) /\ s[j] = "\"" -> JsonOk(JsonString(plain), j + 1)
          [] j <= Len(s) /\ s[j] \in {"\n", "\t", "\r"} -> JsonFail
          [] j + 1 > Len(s) -> JsonFail
          [] OTHER ->
              IF s[j + 1] \in {"\"", "\\", "/", "b", "f", "n", "r", "t"}
              THEN ScanString(s, j + 2, Append(plain, Unescape(s[j + 1])))
              ELSE IF /\ s[j + 1] = "u"
                      /\ j + 5 <= Len(s)
                      /\ \A k \in 2..5 : s[j + k] \in HexDigits
                   THEN ScanString(s, j + 6, Append(plain, "<U>"))
              ELSE JsonFail

\* the first position at or after i that holds no digit
SkipDigits(s, i) == Least({j \in i..Len(s) : s[j] \notin Digits} \cup {Len(s) + 1})

\* a JSON number starting at i: -? (0 | [1-9][0-9]*) (. [0-9]+)? ([eE] [+-]? [0-9]+)?
ScanNumber(s, i) ==
    LET afterSign == IF i <= Len(s) /\ s[i] = "-" THEN i + 1 ELSE i
        afterInt ==
            IF afterSign > Len(s) \/ s[afterSign] \notin Digits THEN 0
            ELSE IF s[afterSign] = "0" THEN afterSign + 1
            ELSE SkipDigits(s, afterSign)
        afterFrac ==
            IF afterInt = 0 THEN 0
            ELSE IF afterInt <= Len(s) /\ s[afterInt] = "."
                 THEN IF SkipDigits(s, afterInt + 1) = afterInt + 1 THEN 0
                      ELSE SkipDigits(s, afterInt + 1)
            ELSE afterInt
        expDigits ==
            IF afterFrac = 0 THEN 0
            ELSE IF afterFrac <= Len(s) /\ s[afterFrac] \in {"e", "E"}
                 THEN IF afterFrac + 1 <= Len(s) /\ s[afterFrac + 1] \in {"+", "-"}
                      THEN afterFrac + 2
                      ELSE afterFrac + 1
            ELSE afterFrac
        afterExp ==
            IF afterFrac = 0 THEN 0
            ELSE IF expDigits = afterFrac THEN afterFrac
            ELSE IF SkipDigits(s, expDigits) = expDigits THEN 0
            ELSE SkipDigits(s, expDigits)
    IN  IF afterExp = 0 THEN JsonFail ELSE JsonOk(JsonOther, afterExp)

LitTrue == <<"t", "r", "u", "e">>
LitFalse == <<"f", "a", "l", "s", "e">>
LitNull == <<"n", "u", "l", "l">>

RECURSIVE ParseValue(_, _)
RECURSIVE ParseItems(_, _, _)
RECURSIVE ParseMembers(_, _)

\* the elements of an array after the first element's position i
ParseItems(s, i, acc) ==
    LET r == ParseValue(s, i)
        j == SkipWs(s, r.next)
    IN  IF ~r.ok \/ j > Len(s) THEN JsonFail
        ELSE IF s[j] = "," THEN ParseItems(s, SkipWs(s, j + 1), Append(acc, r.v))
        ELSE IF s[j] = "]" THEN JsonOk(JsonArray(Append(acc, r.v)), j + 1)
        ELSE JsonFail

\* the members of an object, the first key's position being i
ParseMembers(s, i) ==
    IF i > Len(s) \/ s[i] # "\"" THEN JsonFail
    ELSE LET key == ScanString(s, i + 1, <<>>)
             colon == SkipWs(s, key.next)
             val == ParseValue(s, SkipWs(s, colon + 1))
             j == SkipWs(s, val.next)
         IN  IF ~key.ok \/ colon > Len(s) \/ s[colon] # ":" THEN JsonFail
             ELSE IF ~val.ok \/ j > Len(s) THEN JsonFail
             ELSE IF s[j] = "," THEN ParseMembers(s, SkipWs(s, j + 1))
             ELSE IF s[j] = "}" THEN JsonOk(JsonOther, j + 1)
             ELSE JsonFail

\* the JSON value that starts at position i
ParseValue(s, i) ==
    IF i > Len(s) THEN JsonFail
    ELSE IF s[i] = "\"" THEN ScanString(s, i + 1, <<>>)
    ELSE IF s[i] = "["
         THEN LET j == SkipWs(s, i + 1)
              IN  IF j <= Len(s) /\ s[j] = "]"
                  THEN JsonOk(JsonArray(<<>>), j + 1)
                  ELSE ParseItems(s, j, <<>>)
    ELSE IF s[i] = "{"
         THEN LET j == SkipWs(s, i + 1)
              IN  IF j <= Len(s) /\ s[j] = "}"
                  THEN JsonOk(JsonOther, j + 1)
                  ELSE ParseMembers(s, j)
    ELSE IF StartsWithAt(s, i, LitTrue) THEN JsonOk(JsonOther, i + Len(LitTrue))
    ELSE IF StartsWithAt(s, i, LitFalse) THEN JsonOk(JsonOther, i + Len(LitFalse))
    ELSE IF StartsWithAt(s, i, LitNull) THEN JsonOk(JsonOther, i + Len(LitNull))
    ELSE ScanNumber(s, i)

\* JSON.parse(text): one value, white space around it, nothing else;
\* ok is FALSE where JSON.parse throws a SyntaxError
JsonParse(text) ==
    LET r == ParseValue(text, SkipWs(text, 1))
    IN  IF r.ok /\ SkipWs(text, r.next) = Len(text) + 1 THEN r ELSE JsonFail

\* the relaxed filter: typeof v === 'string' && v.length >= 10 && v.length <= 20
MIN_ID_LENGTH == 10
MAX_ID_LENGTH == 20

IsValidVideoVin(v) ==
    v.t = "string" /\ Len(v.s) >= MIN_ID_LENGTH /\ Len(v.s) <= MAX_ID_LENGTH

\* parsedVins.filter(...): the strings that pass, in order
RECURSIVE FilterValidVins(_)
FilterValidVins(items) ==
    IF items = <<>> THEN <<>>
    ELSE IF IsValidVideoVin(Head(items))
         THEN <<Head(items).s>> \o FilterValidVins(Tail(items))
         ELSE FilterValidVins(Tail(items))

SeqContains(list, x) == \E k \in 1..Len(list) : list[k] = x

\* the list as it is, repetitions kept
KeepAll(list) == list

\* [...new Set(list)]: first occurrences, in insertion order
RECURSIVE UniqueFrom(_, _)
UniqueFrom(list, acc) ==
    IF list = <<>> THEN acc
    ELSE IF SeqContains(acc, Head(list)) THEN UniqueFrom(Tail(list), acc)
    ELSE UniqueFrom(Tail(list), Append(acc, Head(list)))

Unique(list) == UniqueFrom(list, <<>>)

\* the character class [A-Z0-9] of the fallback expression
InIdClass(c) == c \in UpperLetters \/ c \in Digits

\* how many characters of the class follow from position i, up to `most`
RunLength(s, i, most) ==
    Greatest({n \in 0..most :
                i + n - 1 <= Len(s) /\ \A k \in i..(i + n - 1) : InIdClass(s[k])})

\* rawResult.match(/[A-Z0-9]{10,20}/g): from each position the longest
\* match of at most 20 characters; the scan resumes after a match
RECURSIVE MatchIds(_, _, _)
MatchIds(s, i, acc) ==
    LET starts == {j \in i..Len(s) : RunLength(s, j, MAX_ID_LENGTH) >= MIN_ID_LENGTH}
        j == Least(starts)
        n == RunLength(s, j, MAX_ID_LENGTH)
    IN  IF starts = {} THEN acc
        ELSE MatchIds(s, j + n, Append(acc, SubSeq(s, j, j + n - 1)))

\* detectedVins is null or an array: a sequence of no or of one array
Null == <<>>
Some(x) == <<x>>

\* the catch (parseError) block: the regex fallback over rawResult
ParseFallback(rawResult) ==
    LET matches == MatchIds(rawResult, 1, <<>>)
    IN  IF matches # <<>>
        THEN [stage |-> "fallback", detectedVins |-> Some(Unique(matches)),
              error |-> "none"]
        ELSE [stage |-> "fallback", detectedVins |-> Null,
              error |-> "Could not detect any clear VINs"]

\* the inner try block: strict JSON first
ParseStrict(parsedVins) ==
    LET uniqueVins == Unique(FilterValidVins(parsedVins.items))
    IN  [stage |-> "json", detectedVins |-> Some(uniqueVins),
         error |-> IF uniqueVins = <<>> THEN "No potential VINs were detected"
                   ELSE "none"]

\* the inner try block throwing for a SyntaxError only
ThrowsOnSyntaxError(parsed) == ~parsed.ok

\* whether the inner try block throws: JSON.parse's SyntaxError, or the
\* Error("Invalid response format") of the else branch, thrown inside it
StrictThrows(parsed) == ~parsed.ok \/ parsed.v.t # "array"

\* lines 117-144 of handleAnalyze: what detectedVins and error are set to
\* for the text the recognition service returned
ParseDetectedVins(rawResult) ==
    LET parsed == JsonParse(CleanResult(rawResult))
    IN  IF StrictThrows(parsed)
        THEN ParseFallback(rawResult)
        ELSE ParseStrict(parsed.v)

\* the parser's variables when only the application runs
NoShape == [kind |-> "none", elems |-> <<>>, body |-> <<>>]

NoMulti == [stage |-> "none", detectedVins |-> Null, error |-> "none"]

ParserIdle ==
    /\ recogText = <<>>
    /\ recogShape = NoShape
    /\ recogOutcome = "idle"
    /\ singleResult = NoResult
    /\ multiResult = NoMulti

----------------------------------------------------------------------------
(* Frame Sampler: VideoAnalyzer.tsx extractFrames.                         *)
(*                                                                         *)
(* A time is a JavaScript number: NaN, Infinity or a finite value.  Finite *)
(* times are exact multiples of 1/(10 * FRAME_COUNT) second, the unit in   *)
(* which a duration given in tenths of a second, its eighth and the 0.1    *)
(* of line 70 are all whole numbers.                                       *)

FRAME_COUNT == 8

\* units in a tenth of a second
UnitsPerTenth == FRAME_COUNT

\* the fallback duration of line 63, in seconds
DEFAULT_DURATION == 10

NaN == [kind |-> "NaN", units |-> 0]
Infinity == [kind |-> "Infinity", units |-> 0]
Finite(u) == [kind |-> "finite", units |-> u]

Seconds(n) == Finite(n * 10 * UnitsPerTenth)
Tenths(n) == Finite(n * UnitsPerTenth)

\* !x for a number x: 0 and NaN are falsy
Falsy(x) == x.kind = "NaN" \/ (x.kind = "finite" /\ x.units = 0)

\* line 59: !video.duration || video.duration === Infinity
NeedsWait(duration) == Falsy(duration) \/ duration.kind = "Infinity"

\* a sampler that would assume the fallback duration for every video
AlwaysDefault(duration) == Seconds(DEFAULT_DURATION)

\* line 63: video.duration || 10
FinalDuration(duration) == IF Falsy(duration) THEN Seconds(DEFAULT_DURATION) ELSE duration

\* line 64: finalDuration / FRAME_COUNT
Interval(fd) ==
    IF fd.kind = "finite" THEN Finite(fd.units \div FRAME_COUNT) ELSE fd

\* i * x for an integer i >= 0: 0 * Infinity is NaN
Times(i, x) ==
    CASE x.kind = "NaN" -> NaN
      [] x.kind = "Infinity" -> IF i = 0 THEN NaN ELSE Infinity
      [] OTHER -> Finite(i * x.units)

\* x - 0.1
MinusTenth(x) == IF x.kind = "finite" THEN Finite(x.units - UnitsPerTenth) ELSE x

\* Math.min(a, b): NaN if either is NaN
MathMin(a, b) ==
    CASE a.kind = "NaN" \/ b.kind = "NaN" -> NaN
      [] a.kind = "Infinity" -> b
      [] b.kind = "Infinity" -> a
      [] OTHER -> IF a.units <= b.units THEN a ELSE b

\* Math.max(a, b)
MathMax(a, b) ==
    CASE a.kind = "NaN" \/ b.kind = "NaN" -> NaN
      [] a.kind = "Infinity" -> a
      [] b.kind = "Infinity" -> b
      [] OTHER -> IF a.units >= b.units THEN a ELSE b

SeekTimeMax(i, fd) == MathMax(Times(i, Interval(fd)), MinusTenth(fd))

\* line 70: Math.min(i * interval, finalDuration - 0.1)
SeekTime(i, fd) == MathMin(Times(i, Interval(fd)), MinusTenth(fd))

\* the durations a video element may report
Durations ==
    {NaN, Infinity} \cup {Tenths(n) : n \in 0..MaxDurationTenths}

SamplerIdle ==
    /\ videoDuration = NaN
    /\ samplerPc = "idle"
    /\ finalDuration = NaN
    /\ seekTimes = <<>>

\* video.load(): the element starts loading; its duration is NaN until
\* the metadata is known
LoadVideo ==
    /\ samplerPc = "idle"
    /\ samplerPc' = "loading"
    /\ UNCHANGED <<videoDuration, finalDuration, seekTimes, parserVars, appVars, authVars, startVars>>

\* video.onerror: the promise rejects with 'Failed to load video data.'
VideoError ==
    /\ samplerPc = "loading"
    /\ samplerPc' = "rejected"
    /\ UNCHANGED <<videoDuration, finalDuration, seekTimes, parserVars, appVars, authVars, startVars>>

\* video.onloadeddata fires with the duration the browser determined;
\* lines 59-64
LoadedData ==
    /\ samplerPc = "loading"
    /\ \E d \in Durations :
        /\ videoDuration' = d
        /\ IF NeedsWait(d)
           THEN samplerPc' = "waiting" /\ UNCHANGED finalDuration
           ELSE samplerPc' = "seeking" /\ finalDuration' = FinalDuration(d)
    /\ UNCHANGED <<seekTimes, parserVars, appVars, authVars, startVars>>

\* while the handler waits 500 ms the browser may determine the duration
DurationChange ==
    /\ samplerPc = "waiting"
    /\ \E d \in Durations : d # videoDuration /\ videoDuration' = d
    /\ UNCHANGED <<samplerPc, finalDuration, seekTimes, parserVars, appVars, authVars, startVars>>

\* the 500 ms have passed: line 63 reads video.duration again
WaitElapsed ==
    /\ samplerPc = "waiting"
    /\ samplerPc' = "seeking"
    /\ finalDuration' = FinalDuration(videoDuration)
    /\ UNCHANGED <<videoDuration, seekTimes, parserVars, appVars, authVars, startVars>>

\* one round of the loop of lines 69-84 with i = Len(seekTimes): the
\* assignment to video.currentTime throws a TypeError for a value that is
\* not finite, inside the async handler, and the promise never settles
SeekFrame ==
    /\ samplerPc = "seeking"
    /\ Len(seekTimes) < FRAME_COUNT
    /\ LET time == SeekTime(Len(seekTimes), finalDuration)
       IN  IF time.kind = "finite"
           THEN /\ seekTimes' = Append(seekTimes, time)
                /\ samplerPc' = IF Len(seekTimes) + 1 = FRAME_COUNT
                                THEN "resolved" ELSE "seeking"
           ELSE /\ seekTimes' = seekTimes
                /\ samplerPc' = "threw"
    /\ UNCHANGED <<videoDuration, finalDuration, parserVars, appVars, authVars, startVars>>

NextSampler ==
    \/ LoadVideo
    \/ VideoError
    \/ LoadedData
    \/ DurationChange
    \/ WaitElapsed
    \/ SeekFrame

----------------------------------------------------------------------------
(* authService: the users and the invitation codes, kept in localStorage.  *)
(* Each function waits once, on a timer, before it touches the storage;    *)
(* from its first reading of the storage to its last writing it does not   *)
(* wait, so that each call is one step.                                     *)

\* the invitations the store holds at most
MaxInvites == 2

\* the users the store holds at most, the two of INITIAL_USERS included
MaxUsers == 4

\* String.prototype.toLowerCase on one character
ToLowerChar(c) ==
    IF c \in UpperLetters
    THEN LowerSeq[CHOOSE i \in 1..26 : UpperSeq[i] = c]
    ELSE c

\* String.prototype.toLowerCase
ToLowerCase(s) == [i \in 1..Len(s) |-> ToLowerChar(s[i])]

AdminEmail == <<"a", "d", "m", "i", "n", "@", "a", "d", "m", "i", "n", ".", "c", "o", "m">>
AgentEmail == <<"a", "g", "e", "n", "t", "@", "a", "g", "e", "n", "t", ".", "c", "o", "m">>
AnaEmail == <<"a", "n", "a", "@", "x", ".", "c", "o">>
AnaEmailTyped == <<"A", "n", "a", "@", "X", ".", "c", "o">>
BenEmail == <<"b", "e", "n", "@", "x", ".", "c", "o">>

\* the addresses typed into the registration form
RegisterEmails == {AgentEmail, AnaEmail, AnaEmailTyped, BenEmail}

\* 'INV-' + Math.random().toString(36).substr(2, 6).toUpperCase(): what
\* two calls may return; nothing keeps a later call from returning what an
\* earlier one returned
InviteCodes == {"INV-K3X9QZ", "INV-7P"}

\* a code typed into the form that was never generated
NoSuchCode == "INV-000000"

\* 'user_' + Math.random().toString(36).substr(2, 9)
UserIds == {"user_4fzq1x0ab", "user_9k2m"}

\* a stored user; password is Null where the stored object has none
INITIAL_USERS ==
    <<[id |-> "admin_1", email |-> AdminEmail, role |-> "admin", status |-> "active",
       password |-> Some("admin")],
      [id |-> "agent_1", email |-> AgentEmail, role |-> "agent", status |-> "active",
       password |-> Some("agent")]>>

\* the password typed into the registration form
RegisterPassword == Some("welcome1")

\* what login and updateUser were called with; the other calls are
\* recorded without
NoArg == [id |-> "", email |-> <<>>, password |-> Null, status |-> ""]

\* how a call ended: resolved, or rejected with an Error
AuthOk(op) == [op |-> op, ok |-> TRUE, error |-> "none", arg |-> NoArg]
AuthError(op, message) == [op |-> op, ok |-> FALSE, error |-> message, arg |-> NoArg]
WithArg(result, arg) == [result EXCEPT !.arg = arg]

\* the storage after initializeStorage, before any call
AuthIdle ==
    /\ users = INITIAL_USERS
    /\ invites = <<>>
    /\ registered = <<>>
    /\ authResult = AuthOk("none")

\* users.some(u => u.email.toLowerCase() === email.toLowerCase())
EmailRegistered(list, email) ==
    \E k \in 1..Len(list) : ToLowerCase(list[k].email) = ToLowerCase(email)

\* invites.find(i => i.code === inviteCode && !i.used): the position of the
\* first such invitation, 0 if there is none
FindInvite(list, inviteCode) ==
    LET found == {k \in 1..Len(list) : list[k].code = inviteCode /\ ~list[k].used}
    IN  IF found = {} THEN 0 ELSE Least(found)

\* authService.register, called with an address, a code and the id that
\* Math.random gives the new user
register(email, inviteCode, id) ==
    LET k == FindInvite(invites, inviteCode)
    IN  /\ IF EmailRegistered(users, email)
           THEN /\ authResult' = AuthError("register", "Email already registered.")
                /\ UNCHANGED <<users, invites, registered>>
           ELSE IF k = 0
           THEN /\ authResult' = AuthError("register", "Invalid or already used invite code.")
                /\ UNCHANGED <<users, invites, registered>>
           ELSE /\ Len(users) < MaxUsers
                /\ invites' = [invites EXCEPT ![k].used = TRUE, ![k].usedBy = Some(id)]
                /\ users' = Append(users, [id |-> id, email |-> email,
                                           role |-> "agent", status |-> "active",
                                           password |-> RegisterPassword])
                /\ registered' = Append(registered, [code |-> inviteCode, userId |-> id])
                /\ authResult' = AuthOk("register")
        /\ UNCHANGED <<appVars, parserVars, samplerVars, startVars>>

\* authService.generateInviteCode(adminId)
generateInviteCode ==
    /\ Len(invites) < MaxInvites
    /\ \E code \in InviteCodes :
        invites' = Append(invites, [code |-> code, createdBy |-> "admin_1",
                                    used |-> FALSE, usedBy |-> Null])
    /\ authResult' = AuthOk("generateInviteCode")
    /\ UNCHANGED <<users, registered, appVars, parserVars, samplerVars, startVars>>

\* authService.revokeInviteCode(code): invites.filter(i => i.code !== code)
revokeInviteCode(code) ==
    /\ invites' = SelectSeq(invites, LAMBDA i : i.code # code)
    /\ authResult' = AuthOk("revokeInviteCode")
    /\ UNCHANGED <<users, registered, appVars, parserVars, samplerVars, startVars>>

\* !x for a password x: undefined and '' are falsy
NoPassword(x) == x = Null \/ x = Some("")

\* users.findIndex: the position of the first user that meets the test, 0
\* if there is none
FindUserById(list, id) ==
    LET found == {k \in 1..Len(list) : list[k].id = id}
    IN  IF found = {} THEN 0 ELSE Least(found)

FindUserByEmail(list, email) ==
    LET found == {k \in 1..Len(list) : ToLowerCase(list[k].email) = ToLowerCase(email)}
    IN  IF found = {} THEN 0 ELSE Least(found)

\* lines 235-240 of updateUser: {...users[index], ...data}, which copies
\* the password key of data also when its value is undefined, and then
\* the assignment of a password that is not falsy
MergeUser(user, data) ==
    LET spread == [user EXCEPT !.email = data.email, !.status = data.status,
                               !.password = data.password]
    IN  IF NoPassword(data.password) THEN spread
        ELSE [spread EXCEPT !.password = data.password]

\* authService.updateUser(id, data), with data as UserModal.handleSubmit
\* builds it: every key is present, password: password || undefined
updateUser(data) ==
    LET index == FindUserById(users, data.id)
        result == IF index = 0 THEN AuthError("updateUser", "User not found.")
                  ELSE IF /\ ToLowerCase(data.email) # ToLowerCase(users[index].email)
                          /\ EmailRegistered(users, data.email)
                  THEN AuthError("updateUser", "Email already in use.")
                  ELSE AuthOk("updateUser")
    IN  /\ authResult' = WithArg(result, data)
        /\ users' = IF result.ok
                     THEN [users EXCEPT ![index] = MergeUser(users[index], data)]
                     ELSE users
        /\ UNCHANGED <<invites, registered, appVars, parserVars, samplerVars, startVars>>

\* authService.login(email, password); lastLogin and the current user it
\* stores are not read by any call of the model
login(email, password) ==
    LET index == FindUserByEmail(users, email)
        result == IF index = 0 THEN AuthError("login", "User not found.")
                  ELSE IF users[index].status = "blocked"
                  THEN AuthError("login", "This account has been deactivated by an administrator.")
                  ELSE IF ~NoPassword(users[index].password) /\ users[index].password # password
                  THEN AuthError("login", "Invalid password.")
                  ELSE AuthOk("login")
    IN  /\ authResult' = WithArg(result, [id |-> IF index = 0 THEN "" ELSE users[index].id,
                                          email |-> email, password |-> password,
                                          status |-> ""])
        /\ UNCHANGED <<users, invites, registered, appVars, parserVars, samplerVars, startVars>>

\* what the administrator's edit form sends for the demo agent: the
\* password field left empty (undefined) or filled in
UpdateInputs ==
    LET Form(id, email, password, status) ==
            [id |-> id, email |-> email, password |-> password, status |-> status]
    IN  {Form("agent_1", AgentEmail, Null, "active"),
         Form("agent_1", AgentEmail, Some("agent2"), "active"),
         Form("agent_1", AgentEmail, Null, "blocked"),
         Form("agent_1", AdminEmail, Null, "active"),
         Form("user_gone", AgentEmail, Null, "active")}

\* what is typed into the login form
LoginEmails == {AgentEmail, AnaEmailTyped}
LoginPasswords == {Some("agent"), Some("guess")}

NextAuth ==
    \/ \E data \in UpdateInputs : updateUser(data)
    \/ \E email \in LoginEmails, password \in LoginPasswords : login(email, password)
    \/ generateInviteCode
    \/ \E code \in InviteCodes : revokeInviteCode(code)
    \/ \E email \in RegisterEmails, code \in InviteCodes \cup {NoSuchCode}, id \in UserIds :
        register(email, code, id)

----------------------------------------------------------------------------
(* The agent's application: AgentApp.tsx, the four capture components and  *)
(* the audit log of firebaseService.ts.                                    *)
(*                                                                         *)
(* An async handler runs to its first await in the action that starts it   *)
(* and from there in one action per stretch of code that reads or writes   *)
(* shared state; between two actions any other handler or user event may   *)
(* run.  Consecutive awaits between which the handler touches nothing but  *)
(* its own locals (geolocation, file reading, recognition, upload) are     *)
(* one wait: the handler resumes once, when the last of them has settled.  *)
(* A handler holds the props of the render it was started from             *)
(* (sessionLogs, sessionId, parkingArea): those it reads later are kept in *)
(* its entry of procs.  A state setter of a component that has been        *)
(* unmounted has no effect; setSessionLogs is AgentApp's and always has.   *)

Tabs == {"scanner", "image", "manual", "video"}

\* currentUser, handed down by App.tsx
CurrentUser == [id |-> "user_agent", email |-> "agent@example.com"]

Dock7 == <<"D", "o", "c", "k", " ", "7">>
OldLot == <<"O", "l", "d", " ", "l", "o", "t">>

\* the stored locations; a record saved before the status field existed
\* has none
LocationStore ==
    <<[name |-> Dock7, status |-> "active"],
      [name |-> OldLot, status |-> "inactive"]>>

\* locationService.getLocations: status: loc.status || 'active'
getLocations ==
    [i \in 1..Len(LocationStore) |->
        [LocationStore[i] EXCEPT
            !.status = IF @ = "undefined" THEN "active" ELSE @]]

\* a filter that would keep every location
AnyStatus(loc) == TRUE

IsActiveLocation(loc) == loc.status = "active" \/ loc.status = "undefined"

\* fetchedLocations.filter(loc => loc.status === 'active' || loc.status === undefined)
ActiveLocations(fetched) == SelectSeq(fetched, IsActiveLocation)

\* the empty string
Empty == <<>>

Min(a, b) == IF a <= b THEN a ELSE b

\* s.slice(0, n)
SliceTo(s, n) == SubSeq(s, 1, Min(n, Len(s)))

DigitSeq == <<"0", "1", "2", "3", "4", "5", "6", "7", "8", "9">>

\* String(n).padStart(2, '0') for 0 <= n < 100
Pad2(n) == <<DigitSeq[(n \div 10) + 1], DigitSeq[(n % 10) + 1]>>

\* the date and hour in which the model's clock runs
BaseDay == 1
BaseMonth == 11
BaseYear == 2026
BaseHour == 10

\* area.replace(/[^a-zA-Z0-9]/g, '')
IsAlnum(c) == c \in LowerLetters \cup UpperLetters \cup Digits

ReplaceNonAlnum(s) == SelectSeq(s, IsAlnum)

AREA_PREFIX_LENGTH == 6

\* generateSessionId at the instant t (hundredths of a second into the
\* base hour): the sanitized area, then dd mm yyyy hh min ss and the first
\* two digits of the milliseconds
generateSessionId(area, t) ==
    SliceTo(ToUpperCase(ReplaceNonAlnum(area)), AREA_PREFIX_LENGTH)
        \o Pad2(BaseDay) \o Pad2(BaseMonth)
        \o Pad2(BaseYear \div 100) \o Pad2(BaseYear % 100)
        \o Pad2(BaseHour) \o Pad2((t \div 6000) % 60)
        \o Pad2((t \div 100) % 60) \o Pad2(t % 100)

\* no device is being watched
StartIdle == startAreas = <<>> /\ startInstant = 0 /\ startedIds = <<>>

\* a fix of the geolocation provider, and the placeholder of the video flow
GeoFix == [latitude |-> 40, longitude |-> -3]
ZeroFix == [latitude |-> 0, longitude |-> 0]

\* a check that finds no vin in any list
NeverDuplicate(logs, vin) == FALSE

\* sessionLogs.some(log => log.vin === vin)
IsDuplicate(logs, vin) == \E k \in 1..Len(logs) : logs[k].vin = vin

\* the object handed to addScanLog; imageUrl is "" where the flow has none
LogData(p, vin, imageUrl, entryMethod, t) ==
    [sessionId |-> p.sessionId,
     vin |-> vin,
     parkingArea |-> p.parkingArea,
     timestamp |-> t,
     location |-> p.location,
     imageUrl |-> imageUrl,
     entryMethod |-> entryMethod,
     userId |-> CurrentUser.id,
     userEmail |-> CurrentUser.email]

\* addScanLog: newLog = {...logData, id}; the id is unique
addScanLog(logData) ==
    [id |-> Len(mockFirestore) + 1,
     sessionId |-> logData.sessionId,
     vin |-> logData.vin,
     parkingArea |-> logData.parkingArea,
     timestamp |-> logData.timestamp,
     location |-> logData.location,
     imageUrl |-> logData.imageUrl,
     entryMethod |-> logData.entryMethod,
     userId |-> logData.userId,
     userEmail |-> logData.userEmail]

\* a reading that would sort the stored array itself
SortInPlace(store) ==
    LET sorted == SortSeq(store, LAMBDA a, b : a.timestamp > b.timestamp)
    IN  [result |-> sorted, store |-> sorted]

\* getAdminAllLogs, lines 55-59: what it returns, a copy of the array sorted
\* newest first, and the array it leaves in the store
getAdminAllLogs(store) ==
    LET copy == [i \in 1..Len(store) |-> store[i]]
    IN  [result |-> SortSeq(copy, LAMBDA a, b : a.timestamp > b.timestamp),
         store |-> store]

\* a ledger that would take the record as it was handed to addScanLog,
\* before the store gave it an id
ScanUnsaved(log, prevLogs) == <<[log EXCEPT !.id = 0]>> \o prevLogs

\* handleScan: setSessionLogs(prevLogs => [log, ...prevLogs])
handleScan(log, prevLogs) == <<log>> \o prevLogs

(* The components' states after mounting *)

WelcomeInit == [selectedArea |-> Null]

ScannerInit ==
    [cameraPermission |-> "prompt", locationPermission |-> "prompt",
     isProcessing |-> FALSE, error |-> "none", vin |-> Null,
     capturedImage |-> FALSE]

ImageInit ==
    [imageFile |-> FALSE, isLoading |-> FALSE, error |-> "none",
     scanResult |-> "none"]

ManualInit ==
    [vin |-> Empty, isLoading |-> FALSE, error |-> "none", success |-> "none"]

VideoInit ==
    [videoFile |-> FALSE, detectedVins |-> Null, isLoading |-> FALSE,
     isSaving |-> FALSE, error |-> "none", successMessage |-> Null]

(* Async handlers in flight.  Handlers are told apart by what they hold, *)
(* not by a name: procs is the bag of them.                                *)

IdleHandler ==
    [kind |-> "none", pc |-> "none", mounted |-> FALSE,
     vin |-> Empty, sessionId |-> Empty, parkingArea |-> Empty,
     sessionLogs |-> <<>>, location |-> ZeroFix, detectedVins |-> <<>>,
     idx |-> 0, addedCount |-> 0, newLog |-> Null]

\* the handlers that read sessionId and parkingArea after their first
\* await, and those that read sessionLogs after it
ReadsSession(kind) ==
    kind \in {"ManualVinInput.handleSubmit", "confirmVin",
              "ImageAnalyzer.handleSubmit", "handleGenerateRecords"}

ReadsSessionLogs(kind) ==
    kind \in {"ImageAnalyzer.handleSubmit", "handleGenerateRecords"}

\* A handler started from the current render, at its first await.  Of the
\* props of that render it holds those it reads later; they stay what
\* they were when it started, whatever AgentApp's state becomes.
StartHandler(kind, pc, vin) ==
    [IdleHandler EXCEPT
        !.kind = kind, !.pc = pc, !.mounted = TRUE, !.vin = vin,
        !.sessionId = IF ReadsSession(kind) THEN currentSessionId ELSE Empty,
        !.parkingArea = IF ReadsSession(kind) THEN parkingArea ELSE Empty,
        !.sessionLogs = IF ReadsSessionLogs(kind) THEN sessionLogs ELSE <<>>]

\* the component a handler belongs to
ComponentOf(kind) ==
    CASE kind = "ManualVinInput.handleSubmit" -> "ManualVinInput"
      [] kind = "processImage" -> "ScanningScreen"
      [] kind = "confirmVin" -> "ScanningScreen"
      [] kind = "ImageAnalyzer.handleSubmit" -> "ImageAnalyzer"
      [] kind = "handleAnalyze" -> "VideoAnalyzer"
      [] kind = "handleGenerateRecords" -> "VideoAnalyzer"
      [] OTHER -> "none"

Handlers == BagToSet(procs)

CanSpawn == BagCardinality(procs) < MaxInFlight

Spawn(h) == procs (+) SetToBag({h})

Finish(h) == procs (-) SetToBag({h})

Continue(h, g) == (procs (-) SetToBag({h})) (+) SetToBag({g})

At(h, kind, pc) == h.kind = kind /\ h.pc = pc

(* Which component is rendered: renderContent and VinScanner's switch *)

MountedIn(comp, tab, scr) ==
    CASE comp = "WelcomeScreen" -> tab = "scanner" /\ scr = "welcome"
      [] comp = "ScanningScreen" -> tab = "scanner" /\ scr = "scanning"
      [] comp = "ImageAnalyzer" -> tab = "image"
      [] comp = "ManualVinInput" -> tab = "manual"
      [] comp = "VideoAnalyzer" -> tab = "video"
      [] OTHER -> FALSE

Mounted(comp) == MountedIn(comp, activeTab, screen)

Unmounts(comp, tab, scr) == Mounted(comp) /\ ~MountedIn(comp, tab, scr)

\* a handler after the navigation to (tab, scr)
AfterNavigation(h, tab, scr) ==
    IF h.mounted /\ Unmounts(ComponentOf(h.kind), tab, scr)
    THEN [h EXCEPT !.mounted = FALSE]
    ELSE h

\* how many of the handlers in flight are g after the navigation
CountAfter(g, tab, scr) ==
    LET same == IF g \in Handlers /\ AfterNavigation(g, tab, scr) = g
                THEN procs[g] ELSE 0
        m == [g EXCEPT !.mounted = TRUE]
        unmounted == IF ~g.mounted /\ m \in Handlers /\ AfterNavigation(m, tab, scr) = g
                     THEN procs[m] ELSE 0
    IN  same + unmounted

\* setActiveTab / setScreen: a component that is no longer rendered is
\* unmounted and loses its state; one that is rendered anew starts from
\* its initial state
Navigate(tab, scr) ==
    /\ activeTab' = tab
    /\ screen' = scr
    /\ welcome' = IF Unmounts("WelcomeScreen", tab, scr) THEN WelcomeInit ELSE welcome
    /\ scanner' = IF Unmounts("ScanningScreen", tab, scr) THEN ScannerInit ELSE scanner
    /\ image' = IF Unmounts("ImageAnalyzer", tab, scr) THEN ImageInit ELSE image
    /\ manual' = IF Unmounts("ManualVinInput", tab, scr) THEN ManualInit ELSE manual
    /\ video' = IF Unmounts("VideoAnalyzer", tab, scr) THEN VideoInit ELSE video
    /\ procs' = [g \in {AfterNavigation(h, tab, scr) : h \in Handlers} |->
                    CountAfter(g, tab, scr)]

\* the form of a capture tab is rendered only while isSessionActive
FormShown(comp) == Mounted(comp) /\ screen = "scanning"

AppIdle ==
    /\ activeTab = "scanner"
    /\ screen = "welcome"
    /\ parkingArea = Empty
    /\ currentSessionId = Empty
    /\ sessionLogs = <<>>
    /\ locations = <<>>
    /\ mockFirestore = <<>>
    /\ now = 0
    /\ welcome = WelcomeInit
    /\ scanner = ScannerInit
    /\ image = ImageInit
    /\ manual = ManualInit
    /\ video = VideoInit
    /\ procs = EmptyBag

Init == AppIdle /\ ParserIdle /\ SamplerIdle /\ AuthIdle /\ StartIdle

otherVars == <<parserVars, samplerVars, authVars, startVars>>

\* The clock is read by each session start and by each record created,
\* and has advanced by the next reading.
SessionsStarted == now - Len(mockFirestore)

CanSave == Len(mockFirestore) < MaxRecords

\* The administrator's dashboard reads the whole log (AdminDashboard.tsx,
\* loadData): the store is left as getAdminAllLogs leaves it.
AdminLoadData ==
    /\ mockFirestore' = getAdminAllLogs(mockFirestore).store
    /\ UNCHANGED <<activeTab, screen, parkingArea, currentSessionId, sessionLogs,
                   locations, now, welcome, scanner, image, manual, video, procs,
                   otherVars>>

(* AgentApp *)

\* the effect of line 26: the active locations are fetched once
FetchLocations ==
    /\ locations = <<>>
    /\ locations' = ActiveLocations(getLocations)
    /\ UNCHANGED <<activeTab, screen, parkingArea, currentSessionId, sessionLogs,
                   mockFirestore, now, welcome, scanner, image, manual, video,
                   procs, otherVars>>

\* WelcomeScreen: a location button is clicked
SelectArea ==
    /\ Mounted("WelcomeScreen")
    /\ \E k \in 1..Len(locations) :
        welcome' = [welcome EXCEPT !.selectedArea = Some(locations[k].name)]
    /\ UNCHANGED <<activeTab, screen, parkingArea, currentSessionId, sessionLogs,
                   locations, mockFirestore, now, scanner, image, manual, video,
                   procs, otherVars>>

\* setSessionLogs([]) of handleStart
StartedSessionLogs == <<>>

\* 'Start Scanning' is clicked: handleStart(selectedArea)
handleStart ==
    /\ Mounted("WelcomeScreen")
    /\ welcome.selectedArea # Null
    /\ SessionsStarted < MaxSessions
    /\ parkingArea' = welcome.selectedArea[1]
    /\ currentSessionId' = generateSessionId(welcome.selectedArea[1], now)
    /\ now' = now + 1
    /\ sessionLogs' = StartedSessionLogs
    /\ Navigate("scanner", "scanning")
    /\ UNCHANGED <<locations, mockFirestore, otherVars>>

\* whether the rendered component shows its 'Finish' button
FinishShown ==
    /\ screen = "scanning"
    /\ activeTab = "scanner" =>
        /\ scanner.cameraPermission = "granted"
        /\ scanner.locationPermission = "granted"

handleFinish ==
    /\ FinishShown
    /\ Navigate("scanner", "summary")
    /\ UNCHANGED <<parkingArea, currentSessionId, sessionLogs, locations,
                   mockFirestore, now, otherVars>>

\* SummaryScreen: 'Back to Scanning'
handleBackToScan ==
    /\ activeTab = "scanner" /\ screen = "summary"
    /\ Navigate("scanner", "scanning")
    /\ UNCHANGED <<parkingArea, currentSessionId, sessionLogs, locations,
                   mockFirestore, now, otherVars>>

\* SummaryScreen: 'Start New Check'
handleStartNewCheck ==
    /\ activeTab = "scanner" /\ screen = "summary"
    /\ sessionLogs' = <<>>
    /\ parkingArea' = Empty
    /\ currentSessionId' = Empty
    /\ Navigate("scanner", "welcome")
    /\ UNCHANGED <<locations, mockFirestore, now, otherVars>>

\* TabButton: setActiveTab(tab)
SwitchTab ==
    \E tab \in Tabs \ {activeTab} :
        /\ Navigate(tab, screen)
        /\ UNCHANGED <<parkingArea, currentSessionId, sessionLogs, locations,
                       mockFirestore, now, otherVars>>

(* ManualVinInput *)

RawLongA == <<"1", "g", "1", "-", "f", "w", "1", "r", "7", "7", "j", "4", "1", "0", "0", "0", "0", "0", "x", "y", "z">>
RawShort == <<"S", "H", "O", "R", "T", "1", "2", "3">>

\* what the agent may have typed or pasted into the input
ManualRawInputs == {RawLongA, RawShort}

\* an input that would keep what was typed, up to 17 characters
TypedAsIs(value) == SliceTo(value, VIN_LENGTH)

\* handleVinChange: the value the input's state is set to
handleVinChange(value) == SliceTo(ReplaceNonVin(ToUpperCase(value)), VIN_LENGTH)

\* the values the input's state is set to
ManualValues == {handleVinChange(raw) : raw \in ManualRawInputs}

ManualType ==
    /\ FormShown("ManualVinInput")
    /\ \E value \in ManualValues :
        /\ value # manual.vin
        /\ manual' = [manual EXCEPT !.vin = value]
    /\ UNCHANGED <<activeTab, screen, parkingArea, currentSessionId, sessionLogs,
                   locations, mockFirestore, now, welcome, scanner, image, video,
                   procs, otherVars>>

\* a check that lets every length pass
AnyLength(vin) == TRUE

\* line 33 of handleSubmit
ManualFormatOk(vin) == Len(vin) = VIN_LENGTH

\* handleSubmit is the form's submit handler and is called while no
\* submission of this form is loading.  The button is disabled for a vin
\* of another length, and handleSubmit checks the length itself.
\* Lines 33-36: the format error.
ManualSubmitInvalid ==
    /\ FormShown("ManualVinInput")
    /\ ~manual.isLoading
    /\ ~ManualFormatOk(manual.vin)
    /\ manual' = [manual EXCEPT
                    !.error = "A valid VIN must be exactly 17 characters long",
                    !.success = "none"]
    /\ UNCHANGED <<activeTab, screen, parkingArea, currentSessionId, sessionLogs,
                   locations, mockFirestore, now, welcome, scanner, image, video,
                   procs, otherVars>>

\* lines 38-41: the duplicate error
ManualSubmitDuplicate ==
    /\ FormShown("ManualVinInput")
    /\ ~manual.isLoading
    /\ ManualFormatOk(manual.vin)
    /\ IsDuplicate(sessionLogs, manual.vin)
    /\ manual' = [manual EXCEPT !.error = "Duplicate VIN", !.success = "none"]
    /\ UNCHANGED <<activeTab, screen, parkingArea, currentSessionId, sessionLogs,
                   locations, mockFirestore, now, welcome, scanner, image, video,
                   procs, otherVars>>

\* lines 43-53: the position is requested
ManualSubmit ==
    /\ FormShown("ManualVinInput")
    /\ ~manual.isLoading
    /\ ManualFormatOk(manual.vin)
    /\ ~IsDuplicate(sessionLogs, manual.vin)
    /\ CanSpawn
    /\ manual' = [manual EXCEPT !.error = "none", !.success = "none", !.isLoading = TRUE]
    /\ procs' = Spawn(StartHandler("ManualVinInput.handleSubmit", "geolocation", manual.vin))
    /\ UNCHANGED <<activeTab, screen, parkingArea, currentSessionId, sessionLogs,
                   locations, mockFirestore, now, welcome, scanner, image, video,
                   otherVars>>

\* h, become g, calls addScanLog for g.vin: the record is pushed, and the
\* handler waits for addScanLog to resolve
Save(h, g, imageUrl, entryMethod) ==
    /\ CanSave
    /\ LET newLog == addScanLog(LogData(g, g.vin, imageUrl, entryMethod, now))
       IN  /\ mockFirestore' = Append(mockFirestore, newLog)
           /\ procs' = Continue(h, [g EXCEPT !.pc = "addScanLog",
                                             !.newLog = Some(newLog)])
    /\ now' = now + 1

\* the position arrives: lines 55-66
ManualGeoOk(h) ==
    /\ At(h, "ManualVinInput.handleSubmit", "geolocation")
    /\ Save(h, [h EXCEPT !.location = GeoFix], "", "Manual")
    /\ UNCHANGED <<activeTab, screen, parkingArea, currentSessionId, sessionLogs,
                   locations, welcome, scanner, image, manual, video, otherVars>>

\* a handler that would save with a default position when the request fails
ManualGeoDefault(h) ==
    /\ At(h, "ManualVinInput.handleSubmit", "geolocation")
    /\ Save(h, [h EXCEPT !.location = [latitude |-> 0, longitude |-> 0]], "", "Manual")
    /\ UNCHANGED <<activeTab, screen, parkingArea, currentSessionId, sessionLogs,
                   locations, welcome, scanner, image, manual, video, otherVars>>

\* the position request fails: lines 71-75
ManualGeoFail(h) ==
    /\ At(h, "ManualVinInput.handleSubmit", "geolocation")
    /\ manual' = IF h.mounted
                 THEN [manual EXCEPT !.error = "Could not get location", !.isLoading = FALSE]
                 ELSE manual
    /\ procs' = Finish(h)
    /\ UNCHANGED <<activeTab, screen, parkingArea, currentSessionId, sessionLogs,
                   locations, mockFirestore, now, welcome, scanner, image, video,
                   otherVars>>

\* addScanLog resolves: lines 67-69 and 74
ManualSaved(h) ==
    /\ At(h, "ManualVinInput.handleSubmit", "addScanLog")
    /\ sessionLogs' = handleScan(h.newLog[1], sessionLogs)
    /\ manual' = IF h.mounted
                 THEN [manual EXCEPT !.success = "Successfully logged VIN",
                                     !.vin = Empty, !.isLoading = FALSE]
                 ELSE manual
    /\ procs' = Finish(h)
    /\ UNCHANGED <<activeTab, screen, parkingArea, currentSessionId, locations,
                   mockFirestore, now, welcome, scanner, image, video, otherVars>>

NextManual ==
    \/ ManualType
    \/ ManualSubmitInvalid
    \/ ManualSubmitDuplicate
    \/ ManualSubmit
    \/ \E h \in Handlers : ManualGeoOk(h)
    \/ \E h \in Handlers : ManualGeoFail(h)
    \/ \E h \in Handlers : ManualSaved(h)

(* VinScanner: ScanningScreen *)

PermissionsGranted ==
    /\ scanner.cameraPermission = "granted"
    /\ scanner.locationPermission = "granted"

\* the capture controls are rendered
ScannerShown == Mounted("ScanningScreen") /\ PermissionsGranted

\* lines 69-75: the position request made on mount is answered
LocationPermission ==
    /\ Mounted("ScanningScreen")
    /\ scanner.locationPermission = "prompt"
    /\ \E answer \in {"granted", "denied"} :
        scanner' = [scanner EXCEPT !.locationPermission = answer]
    /\ UNCHANGED <<activeTab, screen, parkingArea, currentSessionId, sessionLogs,
                   locations, mockFirestore, now, welcome, image, manual, video,
                   procs, otherVars>>

\* lines 78-88: the camera request made on mount is answered
CameraPermission ==
    /\ Mounted("ScanningScreen")
    /\ scanner.cameraPermission = "prompt"
    /\ \/ scanner' = [scanner EXCEPT !.cameraPermission = "granted"]
       \/ scanner' = [scanner EXCEPT !.cameraPermission = "denied",
                                     !.error = "Camera access was denied"]
    /\ UNCHANGED <<activeTab, screen, parkingArea, currentSessionId, sessionLogs,
                   locations, mockFirestore, now, welcome, image, manual, video,
                   procs, otherVars>>

\* captureImage once the stream has a frame, and processImage up to its
\* first await
captureImage ==
    /\ ScannerShown
    /\ ~scanner.capturedImage /\ ~scanner.isProcessing
    /\ CanSpawn
    /\ scanner' = [scanner EXCEPT !.capturedImage = TRUE, !.isProcessing = TRUE,
                                  !.error = "none", !.vin = Null]
    /\ procs' = Spawn(StartHandler("processImage", "recognition", Empty))
    /\ UNCHANGED <<activeTab, screen, parkingArea, currentSessionId, sessionLogs,
                   locations, mockFirestore, now, welcome, image, manual, video,
                   otherVars>>

PaddedA == <<" ">> \o SubSeq(VinA, 1, 3) \o <<"-">> \o SubSeq(VinA, 4, 17) \o <<"\n">>
LabelledB == <<"V", "I", "N", ":", " ">> \o VinB

\* what the recognition service may answer for a photograph
PhotoTexts == {PaddedA, LabelledB}

\* the outcomes of extractVinFromImage: an answer, or the request failing
PhotoOutcomes ==
    {extractVinFromImage(TRUE, text) : text \in PhotoTexts}
        \cup {extractVinFromImage(FALSE, Empty)}

\* processImage, lines 149-168: the blob is read and recognized
ProcessImageDone(h) ==
    /\ At(h, "processImage", "recognition")
    /\ \E r \in PhotoOutcomes :
        scanner' = IF ~h.mounted THEN scanner
                   ELSE IF r.ok
                        THEN [scanner EXCEPT !.vin = Some(r.vin), !.isProcessing = FALSE]
                        ELSE [scanner EXCEPT !.error = r.message, !.isProcessing = FALSE]
    /\ procs' = Finish(h)
    /\ UNCHANGED <<activeTab, screen, parkingArea, currentSessionId, sessionLogs,
                   locations, mockFirestore, now, welcome, image, manual, video,
                   otherVars>>

\* the 'Confirm' button is enabled
ConfirmEnabled ==
    /\ ScannerShown
    /\ scanner.capturedImage /\ ~scanner.isProcessing
    /\ scanner.vin # Null

\* a duplicate rejection that would leave the capture and its vin in place
ConfirmDuplicateKeeps ==
    /\ ConfirmEnabled
    /\ IsDuplicate(sessionLogs, scanner.vin[1])
    /\ scanner' = [scanner EXCEPT !.error = "Duplicate VIN"]
    /\ UNCHANGED <<activeTab, screen, parkingArea, currentSessionId, sessionLogs,
                   locations, mockFirestore, now, welcome, image, manual, video,
                   procs, otherVars>>

\* confirmVin, lines 175-182
ConfirmDuplicate ==
    /\ ConfirmEnabled
    /\ IsDuplicate(sessionLogs, scanner.vin[1])
    /\ scanner' = [scanner EXCEPT !.error = "Duplicate VIN", !.capturedImage = FALSE,
                                  !.vin = Null, !.isProcessing = FALSE]
    /\ UNCHANGED <<activeTab, screen, parkingArea, currentSessionId, sessionLogs,
                   locations, mockFirestore, now, welcome, image, manual, video,
                   procs, otherVars>>

\* confirmVin, lines 184-196
confirmVin ==
    /\ ConfirmEnabled
    /\ ~IsDuplicate(sessionLogs, scanner.vin[1])
    /\ CanSpawn
    /\ scanner' = [scanner EXCEPT !.isProcessing = TRUE, !.error = "none"]
    /\ procs' = Spawn(StartHandler("confirmVin", "geolocation", scanner.vin[1]))
    /\ UNCHANGED <<activeTab, screen, parkingArea, currentSessionId, sessionLogs,
                   locations, mockFirestore, now, welcome, image, manual, video,
                   otherVars>>

\* The position arrives and the image is uploaded: lines 198-212.  The
\* upload, which always resolves, touches nothing another handler reads:
\* the two awaits are one step.
ConfirmGeoOk(h) ==
    /\ At(h, "confirmVin", "geolocation")
    /\ Save(h, [h EXCEPT !.location = GeoFix], "blob", "Camera")
    /\ UNCHANGED <<activeTab, screen, parkingArea, currentSessionId, sessionLogs,
                   locations, welcome, scanner, image, manual, video, otherVars>>

\* lines 216-221
ConfirmGeoFail(h) ==
    /\ At(h, "confirmVin", "geolocation")
    /\ scanner' = IF h.mounted
                  THEN [scanner EXCEPT !.error = "Could not get location",
                                       !.isProcessing = FALSE]
                  ELSE scanner
    /\ procs' = Finish(h)
    /\ UNCHANGED <<activeTab, screen, parkingArea, currentSessionId, sessionLogs,
                   locations, mockFirestore, now, welcome, image, manual, video,
                   otherVars>>

\* the state resetScanner sets
ResetScanner ==
    [scanner EXCEPT !.capturedImage = FALSE, !.vin = Null, !.error = "none",
                    !.isProcessing = FALSE]

\* addScanLog resolves: lines 213-214 and 220
ConfirmSaved(h) ==
    /\ At(h, "confirmVin", "addScanLog")
    /\ sessionLogs' = handleScan(h.newLog[1], sessionLogs)
    /\ scanner' = IF h.mounted THEN ResetScanner ELSE scanner
    /\ procs' = Finish(h)
    /\ UNCHANGED <<activeTab, screen, parkingArea, currentSessionId, locations,
                   mockFirestore, now, welcome, image, manual, video, otherVars>>

\* the 'Retry' button
resetScanner ==
    /\ ScannerShown
    /\ scanner.capturedImage /\ ~scanner.isProcessing
    /\ scanner' = ResetScanner
    /\ UNCHANGED <<activeTab, screen, parkingArea, currentSessionId, sessionLogs,
                   locations, mockFirestore, now, welcome, image, manual, video,
                   procs, otherVars>>

NextScanner ==
    \/ LocationPermission
    \/ CameraPermission
    \/ captureImage
    \/ \E h \in Handlers : ProcessImageDone(h)
    \/ ConfirmDuplicate
    \/ confirmVin
    \/ \E h \in Handlers : ConfirmGeoOk(h)
    \/ \E h \in Handlers : ConfirmGeoFail(h)
    \/ \E h \in Handlers : ConfirmSaved(h)
    \/ resetScanner

(* ImageAnalyzer *)

\* handleFileChange with a file: the input stays usable while a submission
\* is loading
ImageFileChange ==
    /\ FormShown("ImageAnalyzer")
    /\ image' = [image EXCEPT !.imageFile = TRUE, !.error = "none",
                              !.scanResult = "none"]
    /\ image' # image
    /\ UNCHANGED <<activeTab, screen, parkingArea, currentSessionId, sessionLogs,
                   locations, mockFirestore, now, welcome, scanner, manual, video,
                   procs, otherVars>>

\* handleSubmit up to its first await.  The button is disabled without a
\* file, so that the branch of line 45 is not taken.
ImageSubmit ==
    /\ FormShown("ImageAnalyzer")
    /\ image.imageFile /\ ~image.isLoading
    /\ CanSpawn
    /\ image' = [image EXCEPT !.isLoading = TRUE, !.error = "none",
                              !.scanResult = "none"]
    /\ procs' = Spawn(StartHandler("ImageAnalyzer.handleSubmit", "recognition", Empty))
    /\ UNCHANGED <<activeTab, screen, parkingArea, currentSessionId, sessionLogs,
                   locations, mockFirestore, now, welcome, scanner, manual, video,
                   otherVars>>

\* the state set by the catch and finally blocks, lines 104-108
ImageFailed(h, message) ==
    /\ image' = IF h.mounted
                THEN [image EXCEPT !.error = message, !.isLoading = FALSE]
                ELSE image
    /\ procs' = Finish(h)

\* The awaits of lines 55-79 (the position, the file's bytes, the
\* recognition, the upload) touch nothing another handler reads: they are
\* one step, with one action for each way it ends.
\* The position request fails.
ImageGeoFail(h) ==
    /\ At(h, "ImageAnalyzer.handleSubmit", "recognition")
    /\ ImageFailed(h, "Could not get location")
    /\ UNCHANGED <<activeTab, screen, parkingArea, currentSessionId, sessionLogs,
                   locations, mockFirestore, now, welcome, scanner, manual, video,
                   otherVars>>

\* extractVinFromImage throws
ImageRecognitionFailed(h) ==
    /\ At(h, "ImageAnalyzer.handleSubmit", "recognition")
    /\ \E r \in PhotoOutcomes : ~r.ok /\ ImageFailed(h, r.message)
    /\ UNCHANGED <<activeTab, screen, parkingArea, currentSessionId, sessionLogs,
                   locations, mockFirestore, now, welcome, scanner, manual, video,
                   otherVars>>

\* lines 72-76: the recognized vin is in the sessionLogs this handler holds
ImageDuplicate(h) ==
    /\ At(h, "ImageAnalyzer.handleSubmit", "recognition")
    /\ \E r \in PhotoOutcomes :
        /\ r.ok
        /\ IsDuplicate(h.sessionLogs, r.vin)
    /\ ImageFailed(h, "Duplicate VIN")
    /\ UNCHANGED <<activeTab, screen, parkingArea, currentSessionId, sessionLogs,
                   locations, mockFirestore, now, welcome, scanner, manual, video,
                   otherVars>>

\* lines 79-95: the recognized vin is new to this handler
ImageRecognized(h) ==
    /\ At(h, "ImageAnalyzer.handleSubmit", "recognition")
    /\ \E r \in PhotoOutcomes :
        /\ r.ok
        /\ ~IsDuplicate(h.sessionLogs, r.vin)
        /\ Save(h, [h EXCEPT !.location = GeoFix, !.vin = r.vin], "blob", "Upload")
    /\ UNCHANGED <<activeTab, screen, parkingArea, currentSessionId, sessionLogs,
                   locations, welcome, scanner, image, manual, video, otherVars>>

\* lines 98-102 and 107
ImageSaved(h) ==
    /\ At(h, "ImageAnalyzer.handleSubmit", "addScanLog")
    /\ sessionLogs' = handleScan(h.newLog[1], sessionLogs)
    /\ image' = IF h.mounted
                THEN [image EXCEPT !.scanResult = "Successfully scanned and logged VIN",
                                   !.imageFile = FALSE, !.isLoading = FALSE]
                ELSE image
    /\ procs' = Finish(h)
    /\ UNCHANGED <<activeTab, screen, parkingArea, currentSessionId, locations,
                   mockFirestore, now, welcome, scanner, manual, video, otherVars>>

NextImage ==
    \/ ImageFileChange
    \/ ImageSubmit
    \/ \E h \in Handlers : ImageGeoFail(h)
    \/ \E h \in Handlers : ImageRecognitionFailed(h)
    \/ \E h \in Handlers : ImageDuplicate(h)
    \/ \E h \in Handlers : ImageRecognized(h)
    \/ \E h \in Handlers : ImageSaved(h)

(* VideoAnalyzer *)

\* the file input is rendered
VideoInputShown == FormShown("VideoAnalyzer") /\ video.detectedVins = Null

\* handleFileChange; the file chosen is a video
VideoFileChange ==
    /\ VideoInputShown
    /\ video' = [video EXCEPT !.videoFile = TRUE, !.detectedVins = Null,
                              !.error = "none", !.successMessage = Null]
    /\ video' # video
    /\ UNCHANGED <<activeTab, screen, parkingArea, currentSessionId, sessionLogs,
                   locations, mockFirestore, now, welcome, scanner, image, manual,
                   procs, otherVars>>

\* handleAnalyze up to its first await.  The button is disabled without a
\* file, so that the branch of line 93 is not taken.
handleAnalyze ==
    /\ VideoInputShown
    /\ video.videoFile /\ ~video.isLoading
    /\ CanSpawn
    /\ video' = [video EXCEPT !.isLoading = TRUE, !.error = "none",
                              !.successMessage = Null, !.detectedVins = Null]
    /\ procs' = Spawn(StartHandler("handleAnalyze", "analysis", Empty))
    /\ UNCHANGED <<activeTab, screen, parkingArea, currentSessionId, sessionLogs,
                   locations, mockFirestore, now, welcome, scanner, image, manual,
                   otherVars>>

\* the state set by the outer catch and finally blocks, lines 146-152
AnalyzeFailed(h, message) ==
    /\ video' = IF h.mounted
                THEN [video EXCEPT !.error = message, !.isLoading = FALSE]
                ELSE video
    /\ procs' = Finish(h)

\* The awaits of lines 113-115 (the frames, the recognition) touch nothing
\* another handler reads: they are one step, with one action for each way
\* it ends.  The Frame Sampler's steps are those of SpecSampler.
\* extractFrames rejects.
VideoFramesFailed(h) ==
    /\ At(h, "handleAnalyze", "analysis")
    /\ AnalyzeFailed(h, "Failed to load video data")
    /\ UNCHANGED <<activeTab, screen, parkingArea, currentSessionId, sessionLogs,
                   locations, mockFirestore, now, welcome, scanner, image, manual,
                   otherVars>>

\* analyzeVideoFrames throws
VideoRecognitionFailed(h) ==
    /\ At(h, "handleAnalyze", "analysis")
    /\ AnalyzeFailed(h, "Failed to analyze the video")
    /\ UNCHANGED <<activeTab, screen, parkingArea, currentSessionId, sessionLogs,
                   locations, mockFirestore, now, welcome, scanner, image, manual,
                   otherVars>>

Quote == "\""

AnswerTwo == <<"[", Quote>> \o VinA \o <<Quote, ",", " ", Quote>> \o VinB \o <<Quote, "]">>
AnswerNone == <<"[", "]">>

\* what the recognition service may answer for the frames of a video
VideoTexts == {AnswerTwo, AnswerNone}

\* what handleAnalyze makes of them, lines 117-144
VideoOutcomes == {ParseDetectedVins(rawResult) : rawResult \in VideoTexts}

\* analyzeVideoFrames answers: lines 117-144 and 150
VideoAnalyzed(h) ==
    /\ At(h, "handleAnalyze", "analysis")
    /\ \E r \in VideoOutcomes :
            video' = IF h.mounted
                     THEN [video EXCEPT
                             !.detectedVins = IF r.detectedVins # Null
                                              THEN r.detectedVins ELSE @,
                             !.error = IF r.error # "none" THEN r.error ELSE @,
                             !.isLoading = FALSE]
                     ELSE video
    /\ procs' = Finish(h)
    /\ UNCHANGED <<activeTab, screen, parkingArea, currentSessionId, sessionLogs,
                   locations, mockFirestore, now, welcome, scanner, image, manual,
                   otherVars>>

\* the list of detected VINs, with 'Cancel' and 'Generate', is rendered
VideoListShown ==
    /\ FormShown("VideoAnalyzer")
    /\ video.detectedVins # Null
    /\ video.detectedVins # Some(<<>>)

\* 'Cancel': setDetectedVins(null)
VideoCancel ==
    /\ VideoListShown
    /\ video' = [video EXCEPT !.detectedVins = Null]
    /\ UNCHANGED <<activeTab, screen, parkingArea, currentSessionId, sessionLogs,
                   locations, mockFirestore, now, welcome, scanner, image, manual,
                   procs, otherVars>>

\* handleGenerateRecords up to its first await
handleGenerateRecords ==
    /\ VideoListShown
    /\ ~video.isSaving
    /\ CanSpawn
    /\ video' = [video EXCEPT !.isSaving = TRUE]
    /\ procs' = Spawn([StartHandler("handleGenerateRecords", "geolocation", Empty)
                          EXCEPT !.detectedVins = video.detectedVins[1]])
    /\ UNCHANGED <<activeTab, screen, parkingArea, currentSessionId, sessionLogs,
                   locations, mockFirestore, now, welcome, scanner, image, manual,
                   otherVars>>

\* the position `from` itself, whatever logs holds; 0 past the end
NextAny(vins, logs, from) == IF from > Len(vins) THEN 0 ELSE from

\* a loop that would end at the first vin that is in logs
StopAtDup(vins, logs, from) ==
    IF from > Len(vins) \/ IsDuplicate(logs, vins[from]) THEN 0 ELSE from

\* the first position from `from` on of a vin that is not in logs; 0 if
\* there is none
NextNonDup(vins, logs, from) ==
    LET fresh == {m \in from..Len(vins) : ~IsDuplicate(logs, vins[m])}
    IN  IF fresh = {} THEN 0
        ELSE CHOOSE m \in fresh : \A n \in fresh : m <= n

\* The loop of lines 178-194 from position `from` on, run by the handler h
\* become g: up to the next call of addScanLog, or to the end, lines 196-205
BatchStep(h, g, from) ==
    LET j == NextNonDup(g.detectedVins, g.sessionLogs, from)
    IN  IF j = 0
        THEN /\ video' = IF h.mounted
                         THEN [video EXCEPT !.successMessage = Some(g.addedCount),
                                            !.detectedVins = Null,
                                            !.videoFile = FALSE,
                                            !.isSaving = FALSE]
                         ELSE video
             /\ procs' = Finish(h)
             /\ UNCHANGED <<mockFirestore, now>>
        ELSE /\ Save(h, [g EXCEPT !.idx = j, !.vin = g.detectedVins[j]], "", "Video")
             /\ video' = video

\* a handler that would give the batch up when the position request fails
VideoGeoStrict(h) ==
    /\ At(h, "handleGenerateRecords", "geolocation")
    /\ \/ BatchStep(h, [h EXCEPT !.location = GeoFix], 1)
       \/ /\ video' = IF h.mounted
                        THEN [video EXCEPT !.error = "Could not get location",
                                           !.isSaving = FALSE]
                        ELSE video
          /\ procs' = Finish(h)
          /\ UNCHANGED <<mockFirestore, now>>
    /\ UNCHANGED <<activeTab, screen, parkingArea, currentSessionId, sessionLogs,
                   locations, welcome, scanner, image, manual, otherVars>>

\* the position request is answered, with a fix or with an error
VideoGeoDone(h) ==
    /\ At(h, "handleGenerateRecords", "geolocation")
    /\ \E fix \in {GeoFix, ZeroFix} :
        BatchStep(h, [h EXCEPT !.location = fix], 1)
    /\ UNCHANGED <<activeTab, screen, parkingArea, currentSessionId, sessionLogs,
                   locations, welcome, scanner, image, manual, otherVars>>

\* addScanLog resolves: lines 191-192, and the loop goes on
VideoSaved(h) ==
    /\ At(h, "handleGenerateRecords", "addScanLog")
    /\ sessionLogs' = handleScan(h.newLog[1], sessionLogs)
    /\ BatchStep(h, [h EXCEPT !.addedCount = @ + 1, !.newLog = Null], h.idx + 1)
    /\ UNCHANGED <<activeTab, screen, parkingArea, currentSessionId, locations,
                   welcome, scanner, image, manual, otherVars>>

NextVideo ==
    \/ VideoFileChange
    \/ handleAnalyze
    \/ \E h \in Handlers : VideoFramesFailed(h)
    \/ \E h \in Handlers : VideoRecognitionFailed(h)
    \/ \E h \in Handlers : VideoAnalyzed(h)
    \/ VideoCancel
    \/ handleGenerateRecords
    \/ \E h \in Handlers : VideoGeoDone(h)
    \/ \E h \in Handlers : VideoSaved(h)

NextApp ==
    \/ FetchLocations
    \/ SelectArea
    \/ handleStart
    \/ handleFinish
    \/ handleBackToScan
    \/ handleStartNewCheck
    \/ SwitchTab
    \/ NextManual
    \/ NextScanner
    \/ NextImage
    \/ NextVideo
    \/ AdminLoadData

Spec == Init /\ [][NextApp]_vars

----------------------------------------------------------------------------
(* SpecSingle: extractVinFromImage applied to generated recognition texts *)

\* the i-th character of an endless text that repeats VinA
BaseChar(i) == VinA[((i - 1) % VIN_LENGTH) + 1]

BaseText(n) == [i \in 1..n |-> BaseChar(i)]

\* s with `junk` inserted after its j-th character
InsertAt(s, j, junk) == SubSeq(s, 1, j) \o junk \o SubSeq(s, j + 1, Len(s))

\* what may be found between the characters of an identifier
JunkStrings ==
    {<<>>, <<" ">>, <<"-">>, <<"\n">>, <<"I">>, <<"O">>, <<"Q">>, <<"g">>,
     <<"Z">>, <<"o", ".">>}

\* what may surround it
Paddings ==
    {<<<<>>, <<>>>>, <<<<" ", "\n">>, <<"\t">>>>, <<<<"V", "I", "N", ":", " ">>, <<".">>>>}

SingleTextsOf(n) ==
    {pad[1] \o InsertAt(BaseText(n), j, junk) \o pad[2] :
        j \in 0..n, junk \in JunkStrings, pad \in Paddings}

SingleTexts ==
    UNION {SingleTextsOf(n) :
        n \in (VIN_LENGTH - MaxSlack)..(VIN_LENGTH + MaxSlack)}

InitSingle ==
    /\ recogText \in SingleTexts
    /\ recogShape = NoShape
    /\ recogOutcome = "pending"
    /\ singleResult = NoResult
    /\ multiResult = NoMulti
    /\ SamplerIdle
    /\ AppIdle
    /\ AuthIdle
    /\ StartIdle

\* the remote call resolves with the text and the function returns or throws
ExtractAnswered ==
    /\ recogOutcome = "pending"
    /\ recogOutcome' = "text"
    /\ singleResult' = extractVinFromImage(TRUE, recogText)
    /\ UNCHANGED <<recogText, recogShape, multiResult, samplerVars, appVars, authVars, startVars>>

\* the remote call rejects: the service is unreachable or answers an error
ExtractRejected ==
    /\ recogOutcome = "pending"
    /\ recogOutcome' = "failed"
    /\ singleResult' = extractVinFromImage(FALSE, recogText)
    /\ UNCHANGED <<recogText, recogShape, multiResult, samplerVars, appVars, authVars, startVars>>

NextSingle == ExtractAnswered \/ ExtractRejected

SpecSingle == InitSingle /\ [][NextSingle]_vars

----------------------------------------------------------------------------
(* SpecMulti: the parsing of handleAnalyze applied to generated answers of *)
(* the recognition service.  An answer is composed from a description, its *)
(* shape, which tells what the answer is without parsing it.               *)

TestId == <<"A", "B", "C", "D", "E", "F", "G", "H", "I", "J", "1", "2", "3", "4">>
ShortId == <<"S", "H", "O", "R", "T", "1", "2", "3">>
LongId == <<"A", "B", "C", "D", "E", "F", "G", "H", "J", "K", "L", "M", "N", "P", "R", "S", "T", "U", "V", "W", "X">>
LowerVinA == <<"1", "g", "1", "f", "w", "1", "r", "7", "7", "j", "4", "1", "0", "0", "0", "0", "0">>
BigNumber == <<"1", "2", "3", "4", "5", "6", "7", "8", "9", "0", "1">>

\* an element of a JSON array: a string, or a literal that is no string
StrElem(chars) == [t |-> "string", s |-> chars, lit |-> <<>>]
LitElem(chars) == [t |-> "other", s |-> <<>>, lit |-> chars]

Quoted(chars) == <<"\"">> \o chars \o <<"\"">>

RenderElem(e) == IF e.t = "string" THEN Quoted(e.s) ELSE e.lit

RECURSIVE RenderElems(_, _)
RenderElems(elems, sep) ==
    IF elems = <<>> THEN <<>>
    ELSE IF Len(elems) = 1 THEN RenderElem(elems[1])
    ELSE RenderElem(Head(elems)) \o sep \o RenderElems(Tail(elems), sep)

RenderArray(elems, sep) == <<"[">> \o RenderElems(elems, sep) \o <<"]">>

Elements ==
    {StrElem(VinA), StrElem(VinB), StrElem(TestId), StrElem(ShortId),
     StrElem(LongId), StrElem(LowerVinA), LitElem(BigNumber), LitElem(LitNull)}

Separators == {<<",">>, <<",", "\n", " ", " ">>}

ElemSeqs == UNION {[1..n -> Elements] : n \in 0..MaxElems}

ArrayShapes ==
    {[kind |-> "array", elems |-> es, body |-> RenderArray(es, sep)] :
        es \in ElemSeqs, sep \in Separators}

\* valid JSON that is no array
ValueBodies ==
    {Quoted(VinA),
     BigNumber,
     LitNull,
     <<"{">> \o Quoted(<<"v", "i", "n", "s">>) \o <<":", " ">>
        \o RenderArray(<<StrElem(VinA), StrElem(VinB)>>, <<",">>) \o <<"}">>}

ProsePrefix == <<"S", "o", "r", "r", "y", ",", " ", "f", "o", "u", "n", "d", " ">>
ProseSuffix == <<" ", "i", "n", " ", "t", "h", "e", " ", "v", "i", "d", "e", "o", ".">>

\* text that is no JSON
MalformedBodies ==
    {ProsePrefix \o TestId \o ProseSuffix,
     ProsePrefix \o RenderArray(<<StrElem(VinA), StrElem(VinB)>>, <<",">>),
     <<"[">> \o Quoted(VinA) \o <<",", "]">>,
     <<"[">> \o Quoted(VinA) \o <<",">> \o Quoted(VinA),
     <<"[", "'">> \o VinB \o <<"'", "]">>,
     <<"[">> \o VinA \o <<",", " ">> \o LongId \o <<"]">>,
     <<"[">> \o Quoted(ShortId) \o <<",", "]">>,
     ProsePrefix,
     <<>>}

ValueShapes == {[kind |-> "value", elems |-> <<>>, body |-> b] : b \in ValueBodies}

MalformedShapes ==
    {[kind |-> "malformed", elems |-> <<>>, body |-> b] : b \in MalformedBodies}

Shapes == ArrayShapes \cup ValueShapes \cup MalformedShapes

\* the answer as the service may wrap it
Wrappings ==
    {<<<<>>, <<>>>>,
     <<FenceJson, FenceEnd>>,
     <<Fence \o <<"\n">>, <<"\n">> \o Fence \o <<"\n">>>>,
     <<<<" ", "\n">>, <<"\n">>>>}

InitMulti ==
    /\ recogShape \in Shapes
    /\ \E w \in Wrappings : recogText = w[1] \o recogShape.body \o w[2]
    /\ recogOutcome = "pending"
    /\ singleResult = NoResult
    /\ multiResult = NoMulti
    /\ SamplerIdle
    /\ AppIdle
    /\ AuthIdle
    /\ StartIdle

\* analyzeVideoFrames resolves with the text, and lines 117-144 parse it
AnalyzeAnswered ==
    /\ recogOutcome = "pending"
    /\ recogOutcome' = "text"
    /\ multiResult' = ParseDetectedVins(recogText)
    /\ UNCHANGED <<recogText, recogShape, singleResult, samplerVars, appVars, authVars, startVars>>

\* analyzeVideoFrames rejects: the outer catch reports it, nothing is parsed
AnalyzeRejected ==
    /\ recogOutcome = "pending"
    /\ recogOutcome' = "failed"
    /\ multiResult' = [stage |-> "none", detectedVins |-> Null,
                       error |-> "Failed to analyze the video"]
    /\ UNCHANGED <<recogText, recogShape, singleResult, samplerVars, appVars, authVars, startVars>>

NextMulti == AnalyzeAnswered \/ AnalyzeRejected

SpecMulti == InitMulti /\ [][NextMulti]_vars

----------------------------------------------------------------------------
(* SpecSampler: extractFrames over the durations a video may report *)

InitSampler == ParserIdle /\ SamplerIdle /\ AppIdle /\ AuthIdle /\ StartIdle

SpecSampler == InitSampler /\ [][NextSampler]_vars

----------------------------------------------------------------------------
(* SpecAuth: the invitation store under generate, register and revoke *)

InitAuth == AuthIdle /\ AppIdle /\ ParserIdle /\ SamplerIdle /\ StartIdle

SpecAuth == InitAuth /\ [][NextAuth]_vars

----------------------------------------------------------------------------
(* Two devices that start a session at the same instant: SpecStart *)

MaxInstant == 2

ParkingA == <<"P", "a", "r", "k", "i", "n", "g", " ", "A">>
ParkingB == <<"P", "a", "r", "k", "i", "n", "g", " ", "B">>
DockSeven == <<"d", "o", "c", "k", "-", "7">>

\* names of stored locations: addLocation and updateLocation keep the
\* names of the store different from each other, letter case ignored
AreaNames == {Dock7, OldLot, ParkingA, ParkingB, DockSeven}

AreaPairs ==
    {pair \in AreaNames \X AreaNames :
        ToLowerCase(pair[1]) # ToLowerCase(pair[2])}

InitStart ==
    /\ startAreas \in AreaPairs
    /\ startInstant \in 0..MaxInstant
    /\ startedIds = <<Null, Null>>
    /\ AppIdle
    /\ ParserIdle
    /\ SamplerIdle
    /\ AuthIdle

\* handleStart on device d: the session identifier is generated for the
\* selected location at the instant of the press
StartSession(d) ==
    /\ startedIds[d] = Null
    /\ startedIds' = [startedIds EXCEPT
            ![d] = Some(generateSessionId(startAreas[d], startInstant))]
    /\ UNCHANGED <<startAreas, startInstant, appVars, parserVars, samplerVars, authVars>>

NextStart == \E d \in 1..2 : StartSession(d)

SpecStart == InitStart /\ [][NextStart]_vars

----------------------------------------------------------------------------
(* The claims.  Each is stated with definitions of its own, apart from the *)
(* operators of the model it is about.                                     *)

\* the restricted alphabet: the uppercase letters except I, O and Q, and
\* the digits
VinAlphabet == (UpperLetters \ {"I", "O", "Q"}) \cup Digits

InVinAlphabet(c) == c \in VinAlphabet

NoRepeats(list) == \A i, j \in 1..Len(list) : i # j => list[i] # list[j]

VinsOf(logs) == {logs[k].vin : k \in 1..Len(logs)}

VinsOfList(list) == {list[k] : k \in 1..Len(list)}

\* the handlers in flight that are g, mounted or not
CopiesOf(g, bag) == CopiesIn(g, bag) + CopiesIn([g EXCEPT !.mounted = ~g.mounted], bag)

\* the handlers a step starts or moves on: those of which there are more
\* after the step than before it; unmounting alone makes none
NewHandlers == {g \in BagToSet(procs') : CopiesOf(g, procs') > CopiesOf(g, procs)}

CheckAtStart == {"ManualVinInput.handleSubmit", "confirmVin"}
CheckAtSave == {"ImageAnalyzer.handleSubmit", "handleGenerateRecords"}

\* the identifiers persisted in the active session whose ledger update has
\* been applied
AppliedVins ==
    {sessionLogs[k].vin :
        k \in {k \in 1..Len(sessionLogs) :
                /\ sessionLogs[k].sessionId = currentSessionId
                /\ \E m \in 1..Len(mockFirestore) : mockFirestore[m] = sessionLogs[k]}}

\* C1: the session ledger never holds two records with the same vin.
C1_LedgerDistinct ==
    \A i, j \in 1..Len(sessionLogs) :
        i # j => sessionLogs[i].vin # sessionLogs[j].vin

\* C2: of the confirmations of one identifier in one session, however
\* they interleave, one record only reaches the audit log.
C2_OnePersisted ==
    \A i, j \in 1..Len(mockFirestore) :
        i # j => \/ mockFirestore[i].vin # mockFirestore[j].vin
                 \/ mockFirestore[i].sessionId # mockFirestore[j].sessionId

\* a capture of the manual or camera flow is started for a vin that is not
\* applied; one of the image or video flow holds the ledger as it is
C3_StartChecked(g) ==
    /\ g.kind \in CheckAtStart /\ g.pc = "geolocation" => g.vin \notin AppliedVins
    /\ g.kind \in CheckAtSave /\ g.pc # "addScanLog" => g.sessionLogs = sessionLogs

\* a record is pushed by a handler for its vin and session, and a handler
\* of the image or video flow pushes no vin of the ledger it holds; the
\* handler holds what it held before the step
C3_SaveChecked(g) ==
    g.pc = "addScanLog" =>
        /\ mockFirestore' = Append(mockFirestore, g.newLog[1])
        /\ g.newLog[1].vin = g.vin
        /\ g.newLog[1].sessionId = g.sessionId
        /\ g.kind \in CheckAtSave => g.vin \notin VinsOf(g.sessionLogs)
        /\ \E h \in BagToSet(procs) :
            /\ h.kind = g.kind
            /\ h.sessionId = g.sessionId
            /\ h.sessionLogs = g.sessionLogs
            /\ g.kind \in CheckAtStart => h.vin = g.vin

\* a step in which a component reports a duplicate
C3_Rejects ==
    \/ manual'.error = "Duplicate VIN" /\ manual' # manual
    \/ scanner'.error = "Duplicate VIN" /\ scanner' # scanner
    \/ image'.error = "Duplicate VIN" /\ image' # image

\* C3: once a capture of X has been persisted in the active session and
\* its ledger update applied, X stays applied while the session lasts, no
\* capture of X is started by the manual or camera flow, a capture of the
\* image or video flow started from then on holds X in its ledger and
\* pushes no record of X, nothing reaches the audit log but through these
\* handlers, and a step that reports a duplicate leaves the audit log and
\* the session ledger as they are.
C3_LaterRejected ==
    [][/\ \A g \in NewHandlers : C3_StartChecked(g) /\ C3_SaveChecked(g)
       /\ mockFirestore' # mockFirestore => \E g \in NewHandlers : g.pc = "addScanLog"
       /\ C3_Rejects => mockFirestore' = mockFirestore /\ sessionLogs' = sessionLogs
       /\ currentSessionId' = currentSessionId => AppliedVins \subseteq AppliedVins'
      ]_vars

\* a second manual capture of a persisted vin has been rejected
C3_Witness ==
    /\ manual.error = "Duplicate VIN"
    /\ manual.vin \in AppliedVins
    /\ Len(mockFirestore) = 1
    /\ Len(sessionLogs) = 1
    /\ procs = EmptyBag

\* the identifiers persisted with the active session's id
PersistedHere ==
    {mockFirestore[k].vin :
        k \in {k \in 1..Len(mockFirestore) :
                mockFirestore[k].sessionId = currentSessionId}}

\* C4: the duplicate check is scoped to the active session: the manual
\* and camera flows report a duplicate only for a vin that has been
\* persisted in the active session, so that a vin persisted in an earlier
\* session only is accepted.
C4_ScopedToSession ==
    [][/\ (manual'.error = "Duplicate VIN" /\ manual.error # "Duplicate VIN")
            => manual.vin \in PersistedHere
       /\ (scanner'.error = "Duplicate VIN" /\ scanner.error # "Duplicate VIN")
            => scanner.vin # Null /\ scanner.vin[1] \in PersistedHere
      ]_vars

\* a submission of the manual form for the vin in the input
C5_Submits == ManualSubmitInvalid \/ ManualSubmitDuplicate \/ ManualSubmit

\* C5: a manual submission of a vin whose length is not 17 reports the
\* format error and does nothing else: no handler is started, the audit
\* log and the session ledger are unchanged; and no handler of the manual
\* flow holds a vin of another length.
C5_FormatRejected ==
    [][/\ (C5_Submits /\ Len(manual.vin) # 17) =>
            /\ manual'.error = "A valid VIN must be exactly 17 characters long"
            /\ ~manual'.isLoading
            /\ procs' = procs
            /\ mockFirestore' = mockFirestore
            /\ sessionLogs' = sessionLogs
       /\ \A g \in BagToSet(procs') :
            g.kind = "ManualVinInput.handleSubmit" => Len(g.vin) = 17
      ]_vars

\* a short vin has been rejected in a session that holds one record
C5_Witness ==
    /\ manual.error = "A valid VIN must be exactly 17 characters long"
    /\ Len(manual.vin) # 17 /\ manual.vin # <<>>
    /\ Len(sessionLogs) = 1
    /\ Len(mockFirestore) = 1

\* C6: for every text the recognition service answers, extractVinFromImage
\* succeeds if and only if exactly 17 characters of the restricted alphabet
\* occur in the text, and then returns those characters in their order;
\* otherwise it fails with an error and returns nothing.
C6_SingleParse ==
    recogOutcome = "text" =>
        LET kept == SelectSeq(recogText, InVinAlphabet)
        IN  /\ singleResult.ok <=> Len(kept) = 17
            /\ singleResult.ok => singleResult.vin = kept
            /\ ~singleResult.ok =>
                singleResult.vin = <<>> /\ singleResult.message # "none"

\* a text with characters to strip around 17 valid ones has been parsed
C6_Witness ==
    /\ recogOutcome = "text"
    /\ singleResult.ok
    /\ Len(recogText) > 17
    /\ singleResult.vin = VinA

\* C7: whichever stage produced it, the list of detected VINs holds no
\* string twice and only strings of 10 to 20 characters.
C7_MultiParse ==
    multiResult.detectedVins # Null =>
        LET list == multiResult.detectedVins[1]
        IN  /\ NoRepeats(list)
            /\ \A k \in 1..Len(list) : Len(list[k]) >= 10 /\ Len(list[k]) <= 20

\* an array that names the same VIN twice has been parsed to one entry
C7_Witness ==
    /\ multiResult.stage = "json"
    /\ Len(recogShape.elems) = 2
    /\ recogShape.elems[1] = recogShape.elems[2]
    /\ multiResult.detectedVins = Some(<<VinA>>)

IdChar(c) == c \in UpperLetters \cup Digits

\* text[a..b] are uppercase letters and digits only
IsRun(text, a, b) == a <= b /\ \A k \in a..b : IdChar(text[k])

\* a run that cannot be extended
IsMaximalRun(text, a, b) ==
    /\ IsRun(text, a, b)
    /\ a = 1 \/ ~IdChar(text[a - 1])
    /\ b = Len(text) \/ ~IdChar(text[b + 1])

\* the runs of 10 to 20 characters of the text, and the maximal ones
Runs(text) ==
    {SubSeq(text, a, a + n - 1) :
        <<a, n>> \in {<<a, n>> \in (1..Len(text)) \X (10..20) :
                        a + n - 1 <= Len(text) /\ IsRun(text, a, a + n - 1)}}

MaximalRuns(text) ==
    {SubSeq(text, a, a + n - 1) :
        <<a, n>> \in {<<a, n>> \in (1..Len(text)) \X (10..20) :
                        a + n - 1 <= Len(text) /\ IsMaximalRun(text, a, a + n - 1)}}

\* C8: the answer goes to the pattern scan exactly when it is no JSON
\* array (malformed, or JSON of another type); the scan returns distinct
\* runs of 10 to 20 uppercase letters and digits of the raw text, every
\* maximal such run among them, and nothing if there is no run; prose
\* around ABCDEFGHIJ1234 yields exactly that string.  A JSON array is
\* never scanned, whatever the filter leaves of it.
C8_Fallback ==
    recogOutcome = "text" =>
        /\ multiResult.stage = "fallback" <=> recogShape.kind # "array"
        /\ recogShape.kind = "array" => multiResult.stage = "json"
        /\ multiResult.stage = "fallback" =>
            IF Runs(recogText) = {}
            THEN multiResult.detectedVins = Null
            ELSE /\ multiResult.detectedVins # Null
                 /\ NoRepeats(multiResult.detectedVins[1])
                 /\ VinsOfList(multiResult.detectedVins[1]) \subseteq Runs(recogText)
                 /\ MaximalRuns(recogText) \subseteq VinsOfList(multiResult.detectedVins[1])
        /\ recogShape.body = ProsePrefix \o TestId \o ProseSuffix =>
            multiResult.detectedVins = Some(<<TestId>>)

\* prose around ABCDEFGHIJ1234 has been scanned
C8_Witness ==
    /\ multiResult.stage = "fallback"
    /\ recogShape.body = ProsePrefix \o TestId \o ProseSuffix
    /\ recogText # recogShape.body
    /\ multiResult.detectedVins = Some(<<TestId>>)

\* C9: for a duration of 8 seconds the seek times of the 8 frames are
\* strictly increasing and all below 8 seconds, and all 8 are taken.
C9_SeekTimes ==
    finalDuration = Seconds(8) =>
        /\ \A i, j \in 1..Len(seekTimes) :
            i < j => seekTimes[i].units < seekTimes[j].units
        /\ \A i \in 1..Len(seekTimes) :
            seekTimes[i].kind = "finite" /\ seekTimes[i].units < Seconds(8).units
        /\ samplerPc \in {"seeking", "resolved"}
        /\ samplerPc = "resolved" => Len(seekTimes) = 8

\* the 8 frames of a video of 8 seconds have been taken
C9_Witness ==
    /\ finalDuration = Seconds(8)
    /\ samplerPc = "resolved"
    /\ Len(seekTimes) = 8
    /\ seekTimes[8] = Seconds(7)

IsBatch(h) == h.kind = "handleGenerateRecords"

\* the positions up to i of the candidates that are not in the ledger the
\* batch was confirmed with; all of them are n - k positions
FreshUpTo(h, i) ==
    {m \in 1..i : m <= Len(h.detectedVins) /\ h.detectedVins[m] \notin VinsOf(h.sessionLogs)}

Fresh(h) == FreshUpTo(h, Len(h.detectedVins))

\* the batch h ends in this step
BatchEnds(h) == IsBatch(h) /\ procs' = procs (-) SetToBag({h})

\* the batch h, become g, pushes a record in this step
BatchPushes(h, g) ==
    /\ IsBatch(h) /\ IsBatch(g) /\ g.pc = "addScanLog"
    /\ g \in NewHandlers
    /\ procs' = (procs (-) SetToBag({h})) (+) SetToBag({g})

\* the handler's addScanLog has resolved in this step
Resolved(h) == IF h.pc = "addScanLog" THEN 1 ELSE 0

\* a batch is confirmed with the candidates shown and the ledger as it is
C10_Confirmed(g) ==
    IsBatch(g) /\ g.pc = "geolocation" =>
        /\ g.detectedVins = video.detectedVins[1]
        /\ g.sessionLogs = sessionLogs
        /\ g.addedCount = 0

\* the batch pushes the next candidate that is not in its ledger, as one
\* record of the audit log, and has counted the record whose push resolved
C10_Pushed(h, g) ==
    /\ g.detectedVins = h.detectedVins /\ g.sessionLogs = h.sessionLogs
    /\ g.addedCount = h.addedCount + Resolved(h)
    /\ g.idx \in Fresh(h)
    /\ Cardinality(FreshUpTo(h, g.idx)) = g.addedCount + 1
    /\ mockFirestore' = Append(mockFirestore, g.newLog[1])
    /\ g.newLog[1].vin = h.detectedVins[g.idx]
    /\ g.newLog[1].entryMethod = "Video"
    /\ g.newLog[1].sessionId = h.sessionId

\* the batch ends after n - k pushes and reports n - k
C10_Ended(h) ==
    /\ h.addedCount + Resolved(h) = Cardinality(Fresh(h))
    /\ mockFirestore' = mockFirestore
    /\ h.mounted => video'.successMessage = Some(Cardinality(Fresh(h)))

\* the record whose push resolved is put in front of the ledger as it is
C10_Applied(h) ==
    sessionLogs' = IF h.pc = "addScanLog" THEN <<h.newLog[1]>> \o sessionLogs
                   ELSE sessionLogs

C10_Steps ==
    /\ \A g \in NewHandlers : C10_Confirmed(g)
    /\ \A h \in BagToSet(procs) :
        /\ BatchEnds(h) => C10_Ended(h) /\ C10_Applied(h)
        /\ \A g \in BagToSet(procs') :
            BatchPushes(h, g) => C10_Pushed(h, g) /\ C10_Applied(h)

SingleKinds == {"ManualVinInput.handleSubmit", "confirmVin", "ImageAnalyzer.handleSubmit"}

SingleMethods == {"Manual", "Camera", "Upload"}

\* the handler h of a single-capture flow is waiting for the position (the
\* image flow waits for it together with the recognition)
AwaitsPosition(h) ==
    /\ h.kind \in SingleKinds
    /\ h.pc \in {"geolocation", "recognition"}
    /\ h.kind = "confirmVin" => h.pc = "geolocation"

\* the handler h ends in this step
HandlerEnds(h) == procs' = procs (-) SetToBag({h})

\* the message the component of h shows
ErrorOf(kind, sc, im, ma) ==
    CASE kind = "confirmVin" -> sc.error
      [] kind = "ImageAnalyzer.handleSubmit" -> im.error
      [] OTHER -> ma.error

C11_Steps ==
    /\ \A h \in BagToSet(procs) :
        AwaitsPosition(h) /\ HandlerEnds(h) =>
            /\ mockFirestore' = mockFirestore
            /\ sessionLogs' = sessionLogs
            /\ h.mounted => ErrorOf(h.kind, scanner', image', manual') # "none"
    /\ \A i \in 1..Len(mockFirestore') :
        mockFirestore'[i].entryMethod \in SingleMethods =>
            mockFirestore'[i].location = GeoFix

\* C11: in the manual, camera and image flows a handler that ends while it
\* waits for the position (the provider failed) appends nothing to the
\* audit log, leaves the session ledger as it is and shows an error; and
\* every record these flows persist carries the position the provider
\* returned, never latitude 0 / longitude 0.
C11_GeoFailureFails == [][C11_Steps]_vars

\* the position request of a manual entry failed after one record was saved
C11_Witness ==
    /\ manual.error = "Could not get location"
    /\ ~manual.isLoading
    /\ Len(mockFirestore) = 1
    /\ Len(sessionLogs) = 1
    /\ BagToSet(procs) = {}

\* ---- C12

\* the batch h, waiting for the position, becomes g in this step
PositionAnswered(h, g) ==
    /\ IsBatch(h) /\ h.pc = "geolocation"
    /\ BatchPushes(h, g)

C12_Steps ==
    \A h \in BagToSet(procs) :
        /\ IsBatch(h) /\ h.pc = "geolocation" /\ BatchEnds(h) =>
            /\ Fresh(h) = {}
            /\ video'.error = video.error
        /\ IsBatch(h) /\ h.location = ZeroFix /\ BatchEnds(h) =>
            /\ h.addedCount + Resolved(h) = Cardinality(Fresh(h))
            /\ video'.error = video.error
        /\ \A g \in BagToSet(procs') :
            /\ PositionAnswered(h, g) =>
                /\ g.location \in {GeoFix, ZeroFix}
                /\ g.idx = Least(Fresh(h))
            /\ BatchPushes(h, g) =>
                /\ h.pc # "geolocation" => g.location = h.location
                /\ g.idx \in Fresh(h)
                /\ Cardinality(FreshUpTo(h, g.idx)) = h.addedCount + Resolved(h) + 1
                /\ mockFirestore' = Append(mockFirestore, g.newLog[1])
                /\ g.newLog[1].vin = h.detectedVins[g.idx]
                /\ g.newLog[1].location = g.location

IsPrefix(s, t) == Len(s) <= Len(t) /\ \A i \in 1..Len(s) : t[i] = s[i]

\* list holds the records of store, each as often, newest first
IsSortedCopy(list, store) ==
    /\ Len(list) = Len(store)
    /\ \A r \in {store[i] : i \in 1..Len(store)} :
        Cardinality({i \in 1..Len(list) : list[i] = r})
            = Cardinality({i \in 1..Len(store) : store[i] = r})
    /\ \A i \in 1..Len(list) - 1 : list[i].timestamp >= list[i + 1].timestamp

C13_Steps ==
    /\ IsPrefix(mockFirestore, mockFirestore')
    /\ Len(mockFirestore') <= Len(mockFirestore) + 1
    /\ getAdminAllLogs(mockFirestore).store = mockFirestore
    /\ IsSortedCopy(getAdminAllLogs(mockFirestore).result, mockFirestore)

\* C13: every step leaves the audit log as it is or appends one record to
\* it, so that no record is removed, moved or changed; getAdminAllLogs
\* returns the records newest first and leaves the stored log as it is.
C13_AppendOnly == [][C13_Steps]_vars

\* the log holds two records, oldest first, and is read newest first
C13_Witness ==
    /\ Len(mockFirestore) = 2
    /\ mockFirestore[1].timestamp < mockFirestore[2].timestamp
    /\ getAdminAllLogs(mockFirestore).result = <<mockFirestore[2], mockFirestore[1]>>

\* ---- C14

\* C14: a record is appended to the audit log, or put in the session
\* ledger, only while the coordinator shows the scanning state, and only
\* for the session that is current: the result of an attempt that was in
\* flight when the agent finished, started a new check or started another
\* session is discarded.
C14_AbandonDiscards ==
    [][/\ Len(mockFirestore') > Len(mockFirestore) =>
            /\ screen = "scanning"
            /\ mockFirestore'[Len(mockFirestore')].sessionId = currentSessionId
       /\ Len(sessionLogs') > Len(sessionLogs) =>
            /\ screen = "scanning"
            /\ sessionLogs'[1].sessionId = currentSessionId
      ]_vars

\* ---- C15

HasLowerCase(s) == \E i \in 1..Len(s) : s[i] \in LowerLetters

\* C15: no identifier with a lowercase letter is in the audit log, and
\* none is among the candidates that the parsing of a video answer hands
\* to the batch, which persists them as they are; and no two of the
\* candidates differ only in letter case.
C15_UpperCaseEverywhere ==
    /\ \A i \in 1..Len(mockFirestore) : ~HasLowerCase(mockFirestore[i].vin)
    /\ multiResult.detectedVins # Null =>
        LET list == multiResult.detectedVins[1]
        IN  /\ \A i \in 1..Len(list) : ~HasLowerCase(list[i])
            /\ \A i, j \in 1..Len(list) :
                ToUpperCase(list[i]) = ToUpperCase(list[j]) => i = j

\* ---- C16

IsWellFormedVin(v) ==
    /\ Len(v) = VIN_LENGTH
    /\ \A i \in 1..Len(v) : v[i] \in VinAlphabet

\* C16: every record of the audit log that was entered by the manual, the
\* camera or the image flow carries an identifier of exactly 17 characters
\* of the restricted alphabet.
C16_SingleFlowsWellFormed ==
    \A i \in 1..Len(mockFirestore) :
        mockFirestore[i].entryMethod \in SingleMethods =>
            IsWellFormedVin(mockFirestore[i].vin)

\* what was typed with lowercase letters, a hyphen and three characters too
\* many was saved as a manual record, after a camera record
C16_Witness ==
    /\ Len(mockFirestore) = 2
    /\ mockFirestore[1].entryMethod = "Camera"
    /\ mockFirestore[2].entryMethod = "Manual"
    /\ mockFirestore[2].vin = handleVinChange(RawLongA)
    /\ manual.success = "Successfully logged VIN"

\* ---- C17

\* the handler h, still shown, ends in this step with the failure of its
\* recognition reported
RecognitionFails(h) ==
    /\ HandlerEnds(h) /\ h.mounted
    /\ \/ /\ At(h, "processImage", "recognition")
          /\ scanner'.error = "Could not recognize a valid VIN"
       \/ /\ At(h, "ImageAnalyzer.handleSubmit", "recognition")
          /\ image'.error = "Could not recognize a valid VIN"
       \/ /\ At(h, "handleAnalyze", "analysis")
          /\ video'.error \notin {"none", "Failed to load video data"}

\* the component of h lets the agent start another attempt: the buttons
\* that start one are rendered and enabled
RetryReady(h, sc, im, vi) ==
    CASE h.kind = "processImage" -> ~sc.isProcessing
      [] h.kind = "ImageAnalyzer.handleSubmit" -> ~im.isLoading
      [] OTHER -> ~vi.isLoading /\ vi.detectedVins = Null

\* C17: when the recognition of a camera, image or video attempt fails
\* (the call is rejected, or its text yields no identifier), the audit log
\* and the session ledger are left as they are and the component shows
\* the controls that start a new attempt, enabled.
C17_FailureLeavesRetryReady ==
    [][\A h \in BagToSet(procs) :
          RecognitionFails(h) =>
            /\ mockFirestore' = mockFirestore
            /\ sessionLogs' = sessionLogs
            /\ RetryReady(h, scanner', image', video')
      ]_vars

\* ---- C18

\* the names of the locations the directory reports as inactive
InactiveNames ==
    {getLocations[i].name : i \in {j \in 1..Len(getLocations) :
                                        getLocations[j].status = "inactive"}}

\* C18: no location that the directory reports as inactive is offered on
\* the welcome screen, is selected, becomes the location of a session, is
\* held by a handler or is written to a record of the audit log or of the
\* session ledger.
C18_ActiveLocationsOnly ==
    /\ \A k \in 1..Len(locations) :
        /\ locations[k].status # "inactive"
        /\ locations[k].name \notin InactiveNames
    /\ welcome.selectedArea # Null => welcome.selectedArea[1] \notin InactiveNames
    /\ parkingArea \notin InactiveNames
    /\ \A h \in BagToSet(procs) : h.parkingArea \notin InactiveNames
    /\ \A i \in 1..Len(mockFirestore) : mockFirestore[i].parkingArea \notin InactiveNames
    /\ \A i \in 1..Len(sessionLogs) : sessionLogs[i].parkingArea \notin InactiveNames

\* the directory holds an inactive location, one location is offered, and
\* a record was saved in a session started there
C18_Witness ==
    /\ InactiveNames # {}
    /\ Len(locations) = 1 /\ Len(getLocations) = 2
    /\ parkingArea = locations[1].name
    /\ Len(mockFirestore) = 1
    /\ mockFirestore[1].parkingArea = parkingArea
    /\ mockFirestore[1].sessionId = currentSessionId

\* ---- C19

\* register resolves in this step, for the code c
Redeems(c) ==
    /\ Len(registered') = Len(registered) + 1
    /\ registered'[Len(registered')].code = c

\* the codes redeemed so far
Redeemed == {registered[i].code : i \in 1..Len(registered)}

\* C19: register resolves only for a code that an unused invitation of
\* the store carries, marks one such invitation used and adds one user;
\* and no code is redeemed twice: a register with a code redeemed before
\* is rejected and adds no user.
C19_RedeemedOnce ==
    [][/\ \A c \in InviteCodes \cup {NoSuchCode} :
            Redeems(c) =>
                /\ c \notin Redeemed
                /\ \E k \in 1..Len(invites) :
                    /\ invites[k].code = c /\ ~invites[k].used
                    /\ invites'[k].code = c /\ invites'[k].used
                /\ Len(users') = Len(users) + 1
       /\ Len(registered') = Len(registered) => Len(users') = Len(users)
      ]_vars

\* ---- C20

\* 'Confirm' can be clicked on a vin that the session ledger holds
ConfirmsDuplicate ==
    /\ ConfirmEnabled
    /\ scanner.vin[1] \in VinsOf(sessionLogs)

\* the scanner reports a duplicate in this step
ReportsDuplicate == scanner'.error = "Duplicate VIN" /\ scanner' # scanner

\* C20: while 'Confirm' is on a vin of the session ledger no confirmVin
\* starts to wait for the position; the click reports the duplicate, and the step that
\* reports it is such a click, appends nothing to the audit log or to the
\* ledger, starts no handler, and leaves the scanner with no captured
\* image, no recognized vin, not processing, and the message shown.
C20_DuplicateConfirmResets ==
    [][/\ ConfirmsDuplicate =>
            \A g \in NewHandlers : ~At(g, "confirmVin", "geolocation")
       /\ ReportsDuplicate =>
            /\ ConfirmsDuplicate
            /\ scanner' = [scanner EXCEPT !.error = "Duplicate VIN",
                                          !.capturedImage = FALSE,
                                          !.vin = Null,
                                          !.isProcessing = FALSE]
            /\ mockFirestore' = mockFirestore
            /\ sessionLogs' = sessionLogs
            /\ procs' = procs
      ]_vars

\* a second capture of a vin of the ledger was confirmed and rejected
C20_Witness ==
    /\ scanner.error = "Duplicate VIN"
    /\ ~scanner.capturedImage /\ scanner.vin = Null /\ ~scanner.isProcessing
    /\ Len(sessionLogs) = 1 /\ Len(mockFirestore) = 1
    /\ sessionLogs[1].entryMethod = "Camera"
    /\ BagToSet(procs) = {}

\* ---- C21

\* the handler h of the camera or of the image flow, become g, pushes its
\* record in this step
SinglePushes(h, g) ==
    /\ h.kind \in {"confirmVin", "ImageAnalyzer.handleSubmit"}
    /\ g.kind = h.kind /\ g.pc = "addScanLog"
    /\ g \in NewHandlers
    /\ procs' = (procs (-) SetToBag({h})) (+) SetToBag({g})

\* C21: in the camera and in the image flow the record is pushed by a
\* handler that the user started on a recognized identifier: the step that
\* pushes the record is not the step in which the recognition answers,
\* and the identifier pushed is the one the handler was started with.
C21_ConfirmBeforePersist ==
    [][\A h \in BagToSet(procs) : \A g \in BagToSet(procs') :
          SinglePushes(h, g) =>
            /\ h.pc # "recognition"
            /\ h.vin = g.vin
            /\ g.newLog[1].vin = h.vin
      ]_vars

\* ---- C22

\* the positions after i of the candidates that are not in the ledger of h
FreshAfter(h, i) == {m \in Fresh(h) : m > i}

\* the position of the record that h pushed last, 0 before its first push
PushedUpTo(h) == IF h.pc = "addScanLog" THEN h.idx ELSE 0

\* C22: a batch goes through its candidates in list order and skips those
\* that are in its ledger, wherever they stand: each push is of the first
\* candidate after the last pushed one that is not in the ledger, and the
\* batch ends only when no such candidate is left.
C22_DuplicatesSkipped ==
    [][\A h \in BagToSet(procs) :
          /\ BatchEnds(h) => FreshAfter(h, PushedUpTo(h)) = {}
          /\ \A g \in BagToSet(procs') :
                BatchPushes(h, g) =>
                    /\ FreshAfter(h, PushedUpTo(h)) # {}
                    /\ g.idx = Least(FreshAfter(h, PushedUpTo(h)))
                    /\ g.newLog[1].vin = h.detectedVins[g.idx]
                    /\ mockFirestore' = Append(mockFirestore, g.newLog[1])
      ]_vars

\* the first candidate was in the ledger and the second was saved
C22_Witness ==
    /\ video.successMessage = Some(1)
    /\ Len(sessionLogs) = 2
    /\ sessionLogs[2].vin = VinA
    /\ sessionLogs[2].entryMethod # "Video"
    /\ sessionLogs[1].vin = VinB
    /\ sessionLogs[1].entryMethod = "Video"
    /\ BagToSet(procs) = {}

\* ---- C23

\* the sampler has read the duration for good and computes seek times
SamplerRuns == samplerPc \in {"seeking", "resolved", "threw"}

\* the duration is missing, zero, NaN or infinite
Undetermined(duration) ==
    \/ duration.kind \in {"NaN", "Infinity"}
    \/ duration.kind = "finite" /\ duration.units = 0

\* C23: when the duration the sampler reads is missing, zero, NaN or
\* infinite, it goes on with a duration of 10 seconds: its seek times are
\* those of a video of 10 seconds, and it does not fail.
C23_FallbackDuration ==
    SamplerRuns /\ Undetermined(videoDuration) =>
        /\ finalDuration = Seconds(DEFAULT_DURATION)
        /\ samplerPc # "threw"
        /\ \A i \in 1..Len(seekTimes) :
            seekTimes[i] = SeekTime(i - 1, Seconds(DEFAULT_DURATION))

\* ---- C29

InAuditLog(rec) == \E i \in 1..Len(mockFirestore) : mockFirestore[i] = rec

\* C24: every record of the session ledger is a record of the audit log,
\* with the same id and the same fields.
C24_LedgerPersisted ==
    \A k \in 1..Len(sessionLogs) : InAuditLog(sessionLogs[k])

\* the ledger holds two records, saved by two flows
C24_Witness ==
    /\ Len(sessionLogs) = 2
    /\ sessionLogs[1].entryMethod # sessionLogs[2].entryMethod
    /\ sessionLogs[1] = mockFirestore[2]
    /\ sessionLogs[2] = mockFirestore[1]

\* ---- C25

\* updateUser resolves in this step, called without a new password
UpdatesWithoutPassword ==
    /\ authResult'.op = "updateUser" /\ authResult'.ok
    /\ NoPassword(authResult'.arg.password)

\* login resolves in this step
LogsIn == authResult'.op = "login" /\ authResult'.ok

\* the stored password of the user with this id
StoredPassword(list, id) == list[FindUserById(list, id)].password

\* C25: an updateUser without a new password leaves the stored password
\* of the user as it was; and login resolves only with the password that
\* is stored for the user.
C25_PasswordKept ==
    [][/\ UpdatesWithoutPassword =>
            StoredPassword(users', authResult'.arg.id) = StoredPassword(users, authResult'.arg.id)
       /\ LogsIn =>
            authResult'.arg.password = StoredPassword(users, authResult'.arg.id)
      ]_vars

\* ---- C26

\* revokeInviteCode resolves in this step
Revokes == authResult'.op = "revokeInviteCode" /\ authResult'.ok

\* the invitations of the list that have been used
UsedInvites(list) == SelectSeq(list, LAMBDA i : i.used)

\* C26: revokeInviteCode removes no invitation that has been used: the
\* used invitations of the store are the same after the call, and a store
\* that holds only used invitations is left unchanged.
C26_RevokeKeepsUsed ==
    [][Revokes =>
        /\ UsedInvites(invites') = UsedInvites(invites)
        /\ (UsedInvites(invites) = invites => invites' = invites)
      ]_vars

\* ---- C27

\* what the caller receives when the remote call fails
RemoteFailure == extractVinFromImage(FALSE, recogText)

\* C27: when the remote call has answered and the stripped text does not
\* have VIN_LENGTH characters, what the caller receives is not the error
\* of a failed remote call.
C27_InvalidFormatDistinct ==
    (recogOutcome = "text" /\ Len(StripVin(recogText)) # VIN_LENGTH) =>
        /\ ~singleResult.ok
        /\ singleResult # RemoteFailure

\* ---- C28

\* C28: every record of the session ledger carries the session identifier
\* and the location of the session that is current.
C28_LedgerOfCurrentSession ==
    \A k \in 1..Len(sessionLogs) :
        /\ sessionLogs[k].sessionId = currentSessionId
        /\ sessionLogs[k].parkingArea = parkingArea

\* ---- C30

\* both devices have started their session
BothStarted == startedIds # <<>> /\ startedIds[1] # Null /\ startedIds[2] # Null

\* C30: two sessions started at the same instant at locations with
\* different names have different session identifiers.
C30_IdsSeparateLocations ==
    (BothStarted /\ startAreas[1] # startAreas[2]) => startedIds[1] # startedIds[2]

=============================================================================
